---- MODULE Spec2Model ----
(***************************************************************************)
(* Model of the voice assistant in src/main.py: the alarm scheduler        *)
(* (set_alarm, remove_alarm, get_alarms, alarm_worker) and the command     *)
(* parser (parse_command).                                                 *)
(*                                                                         *)
(* Strings are sequences of Unicode code points (97 is "a", 1086 is the    *)
(* Cyrillic small letter o), so that lower(), strip(), the "in" operator   *)
(* and the regular expressions are computed character by character.        *)
(* Instants are counted in clock ticks since midnight of day 0.            *)
(***************************************************************************)
EXTENDS Integers, Sequences, FiniteSets, TLC

VARIABLES now, alarms, workers, hist, lastOp, parsed, search, run

vars == <<now, alarms, workers, hist, lastOp, parsed, search, run>>
schedVars == <<now, alarms, workers, hist, lastOp>>

(***************************************************************************)
(* Bounds of the model.                                                    *)
(***************************************************************************)
\* clock ticks per minute: the resolution below the minute (seconds)
TicksPerMinute == 2
\* number of alarms created in one run
MaxAlarms == 2
\* number of ticks the clock advances in one run
Horizon == 4

(***************************************************************************)
(* Program constants.                                                      *)
(***************************************************************************)
MaxHour == 23
MaxMinute == 59

MinutesPerDay == (MaxHour + 1) * (MaxMinute + 1)
DayTicks == MinutesPerDay * TicksPerMinute

\* the instant h:m on day d, plus s ticks
Instant(d, h, m, s) == ((d * (MaxHour + 1) + h) * (MaxMinute + 1) + m) * TicksPerMinute + s

(***************************************************************************)
(* Strings.                                                                *)
(***************************************************************************)
SetMin(S) == CHOOSE x \in S : \A y \in S : x <= y
SetMax(S) == CHOOSE x \in S : \A y \in S : y <= x

\* str.isspace() and the regular expressions' \s, for the code points below 256
IsSpace(c) == c \in {9, 10, 11, 12, 13, 28, 29, 30, 31, 32, 133, 160}
\* the regular expressions' \d, for the ASCII digits
IsDigit(c) == c \in 48..57
Newline == 10

\* str.lower() on one character: Latin A-Z and Cyrillic U+0400..U+042F
LowerChar(c) ==
    IF c \in 65..90 THEN c + 32
    ELSE IF c \in 1040..1071 THEN c + 32
    ELSE IF c \in 1024..1039 THEN c + 80
    ELSE c
Lower(s) == [i \in 1..Len(s) |-> LowerChar(s[i])]

\* str.strip()
Strip(s) ==
    LET keep == {i \in 1..Len(s) : ~IsSpace(s[i])}
    IN  IF keep = {} THEN <<>> ELSE SubSeq(s, SetMin(keep), SetMax(keep))

\* p occurs in s starting at position i
OccursAt(s, p, i) ==
    /\ i >= 1
    /\ i + Len(p) - 1 <= Len(s)
    /\ \A k \in 1..Len(p) : s[i + k - 1] = p[k]
\* Python's "p in s"
Contains(s, p) == \E i \in 1..(Len(s) + 1) : OccursAt(s, p, i)

AllDigits(s) == \A i \in 1..Len(s) : IsDigit(s[i])
AllSpace(s) == \A i \in 1..Len(s) : IsSpace(s[i])

\* int() of a string of ASCII digits
RECURSIVE IntOf(_)
IntOf(s) ==
    IF s = <<>> THEN 0
    ELSE 10 * IntOf(SubSeq(s, 1, Len(s) - 1)) + (s[Len(s)] - 48)

\* what the pattern's final $ leaves to match: the string itself, and, when it
\* ends with a newline, the string without that newline
BeforeDollar(s) ==
    {s} \cup (IF Len(s) > 0 /\ s[Len(s)] = Newline THEN {SubSeq(s, 1, Len(s) - 1)} ELSE {})

(***************************************************************************)
(* set_alarm: the two time formats.                                        *)
(***************************************************************************)
Colon == 58
s_min == <<109, 105, 110>>
s_ute == <<117, 116, 101>>
s_s == <<115>>

\* ^(\d{1,2}):(\d{2})$ on a string b with the $ already taken care of
IsClockForm(b) ==
    /\ Len(b) \in {4, 5}
    /\ b[Len(b) - 2] = Colon
    /\ AllDigits(SubSeq(b, 1, Len(b) - 3))
    /\ AllDigits(SubSeq(b, Len(b) - 1, Len(b)))
\* re.match(r"^(\d{1,2}):(\d{2})$", time_str): the set of (group 1, group 2)
ClockMatch(time_str) ==
    {<<SubSeq(b, 1, Len(b) - 3), SubSeq(b, Len(b) - 1, Len(b))>> :
        b \in {x \in BeforeDollar(time_str) : IsClockForm(x)}}

\* length of the longest prefix of s made of characters satisfying the test
DigitRun(s) ==
    IF AllDigits(s) THEN Len(s)
    ELSE SetMin({i \in 1..Len(s) : ~IsDigit(s[i])}) - 1
SpaceRun(s) ==
    IF AllSpace(s) THEN Len(s)
    ELSE SetMin({i \in 1..Len(s) : ~IsSpace(s[i])}) - 1

\* min(ute)?s? followed by $
MinuteWords == {s_min, s_min \o s_s, s_min \o s_ute, s_min \o s_ute \o s_s}
\* re.match(r"^(\d+)\s*min(ute)?s?$", time_str): the set holding group 1
MinutesMatch(time_str) ==
    LET d == DigitRun(time_str)
        rest1 == SubSeq(time_str, d + 1, Len(time_str))
        rest2 == SubSeq(rest1, SpaceRun(rest1) + 1, Len(rest1))
    IN  IF d >= 1 /\ (BeforeDollar(rest2) \cap MinuteWords) # {}
        THEN {SubSeq(time_str, 1, d)}
        ELSE {}

\* now.replace(hour=hh, minute=mm, second=0, microsecond=0)
ReplaceClock(t, hh, mm) ==
    (t \div DayTicks) * DayTicks + (hh * (MaxMinute + 1) + mm) * TicksPerMinute

\* a slip: hour 24 let through
ClockInRange_mut(hh, mm) == 0 <= hh /\ hh <= MaxHour + 1 /\ 0 <= mm /\ mm <= MaxMinute
\* 0 <= hh <= 23 and 0 <= mm <= 59
ClockInRange(hh, mm) == 0 <= hh /\ hh <= MaxHour /\ 0 <= mm /\ mm <= MaxMinute

\* a slip: < for <=
RollToFuture_mut(alarm_time, t) ==
    IF alarm_time < t THEN alarm_time + DayTicks ELSE alarm_time
\* if alarm_time <= now: alarm_time += timedelta(days=1)
RollToFuture(alarm_time, t) ==
    IF alarm_time <= t THEN alarm_time + DayTicks ELSE alarm_time

\* a slip: < for <=
MinutesRejected_mut(minutes) == minutes < 0
\* if minutes <= 0: raise ValueError
MinutesRejected(minutes) == minutes <= 0

Failure == [ok |-> FALSE, time |-> 0]
Success(t) == [ok |-> TRUE, time |-> t]

\* the alarm time set_alarm computes at instant t, or the ValueError it raises
alarm_time(t, time_str) ==
    LET m == ClockMatch(time_str)
        m2 == MinutesMatch(time_str)
    IN  IF m # {} THEN
            LET g == CHOOSE x \in m : TRUE
                hh == IntOf(g[1])
                mm == IntOf(g[2])
            IN  IF ~ClockInRange(hh, mm) THEN Failure
                ELSE Success(RollToFuture(ReplaceClock(t, hh, mm), t))
        ELSE IF m2 # {} THEN
            LET minutes == IntOf(CHOOSE x \in m2 : TRUE)
            IN  IF MinutesRejected(minutes) THEN Failure
                ELSE Success(t + minutes * TicksPerMinute)
        ELSE Failure

(***************************************************************************)
(* The alarm scheduler.                                                    *)
(*                                                                         *)
(* alarms  the module-level list of alarm dicts; uid stands for the        *)
(*         identity of the dict object                                     *)
(* workers the alarm_worker threads, one per Thread(...).start()           *)
(* hist    history of every alarm ever created, by uid:                    *)
(*         removed    "no", or when remove_alarm took it out of the list:  *)
(*                    "early" (not yet notified, clock before its time),   *)
(*                    "due" (not yet notified, clock at or past its time), *)
(*                    "fired" (after its notification)                     *)
(*         fired      how many times its notification was spoken           *)
(*         firedEarly a notification was spoken before its time            *)
(* lastOp  the last set_alarm call and its outcome                         *)
(***************************************************************************)

\* the label handle_command passes
VoiceLabel == "voice alarm"

\* 'id': len(alarms) + 1
NewId(al) == Len(al) + 1

\* a slip: the alarm is put into the list before the time string is read, so
\* that a call that raises has taken an id
set_alarm_call_mut(time_str, label) ==
    LET r == alarm_time(now, time_str)
        alarm == [time |-> IF r.ok THEN r.time ELSE now, label |-> label,
                  id |-> NewId(alarms), uid |-> Len(hist) + 1]
    IN  /\ Len(hist) < MaxAlarms
        /\ alarms' = Append(alarms, alarm)
        /\ workers' = IF r.ok
                      THEN Append(workers, [alarm |-> alarm, pc |-> "start", wake |-> 0])
                      ELSE Append(workers, [alarm |-> alarm, pc |-> "done", wake |-> 0])
        /\ hist' = Append(hist, [alarm |-> alarm, removed |-> "no",
                                 fired |-> 0, firedEarly |-> FALSE])
        /\ lastOp' = [called |-> TRUE, str |-> time_str, ok |-> r.ok]
\* set_alarm(time_str, label) called at instant now: what it does to the
\* scheduler
set_alarm_call(time_str, label) ==
    LET r == alarm_time(now, time_str)
    IN  IF r.ok
        THEN /\ Len(hist) < MaxAlarms
             /\ LET alarm == [time |-> r.time, label |-> label,
                              id |-> NewId(alarms), uid |-> Len(hist) + 1]
                IN  /\ alarms' = Append(alarms, alarm)
                    /\ workers' = Append(workers, [alarm |-> alarm, pc |-> "start", wake |-> 0])
                    /\ hist' = Append(hist, [alarm |-> alarm, removed |-> "no",
                                             fired |-> 0, firedEarly |-> FALSE])
                    /\ lastOp' = [called |-> TRUE, str |-> time_str, ok |-> TRUE]
        ELSE /\ lastOp' = [called |-> TRUE, str |-> time_str, ok |-> FALSE]
             /\ UNCHANGED <<alarms, workers, hist>>

\* set_alarm(time_str, label) called on its own
set_alarm(time_str, label) ==
    /\ set_alarm_call(time_str, label)
    /\ UNCHANGED <<now, parsed, search, run>>

\* [alarm for alarm in alarms if alarm['id'] != alarm_id]
WithoutId(al, alarm_id) == SelectSeq(al, LAMBDA a : a.id # alarm_id)

InList(al, uid) == \E i \in 1..Len(al) : al[i].uid = uid

\* remove_alarm(alarm_id)
remove_alarm(alarm_id) ==
    /\ alarms' = WithoutId(alarms, alarm_id)
    /\ hist' = [k \in DOMAIN hist |->
                  IF InList(alarms, k) /\ ~InList(alarms', k)
                  THEN [hist[k] EXCEPT !.removed =
                            IF hist[k].fired > 0 THEN "fired"
                            ELSE IF now < hist[k].alarm.time THEN "early"
                            ELSE "due"]
                  ELSE hist[k]]
    /\ UNCHANGED <<now, workers, lastOp, parsed, search, run>>

\* a slip: >= for >
StillAhead_mut(alarm, t) == alarm.time >= t
\* alarm['time'] > datetime.now()
StillAhead(alarm, t) == alarm.time > t
\* get_alarms(): [alarm for alarm in alarms if alarm['time'] > datetime.now()]
get_alarms == SelectSeq(alarms, LAMBDA a : StillAhead(a, now))

\* the show_alarms branch of handle_command: it reads the list and changes nothing
show_alarms ==
    /\ get_alarms \in Seq({alarms[i] : i \in 1..Len(alarms)})
    /\ UNCHANGED <<now, alarms, workers, hist, lastOp, parsed, search, run>>

\* speak(...) in alarm_worker: the notification of alarm k
Notify(k) ==
    hist' = [hist EXCEPT ![k].fired = @ + 1,
                         ![k].firedEarly = @ \/ now < hist[k].alarm.time]

\* what alarm_worker does before it speaks, given delta at its start
\* a slip: the waiter never sleeps
SleepsFirst_mut(delta) == FALSE
SleepsFirst(delta) == delta > 0

\* alarm_worker up to time.sleep(delta): with delta <= 0 it speaks at once
alarm_worker_start(k) ==
    /\ workers[k].pc = "start"
    /\ LET delta == workers[k].alarm.time - now
       IN  IF SleepsFirst(delta)
           THEN /\ workers' = [workers EXCEPT ![k].pc = "sleeping", ![k].wake = now + delta]
                /\ UNCHANGED hist
           ELSE /\ workers' = [workers EXCEPT ![k].pc = "done"]
                /\ Notify(k)
    /\ UNCHANGED <<now, alarms, lastOp, parsed, search, run>>

\* time.sleep(delta) returns, not before delta has passed, and the worker speaks
alarm_worker_wake(k) ==
    /\ workers[k].pc = "sleeping"
    /\ now >= workers[k].wake
    /\ workers' = [workers EXCEPT ![k].pc = "done"]
    /\ Notify(k)
    /\ UNCHANGED <<now, alarms, lastOp, parsed, search, run>>

\* the instants a run starts at, and the last instant of a run
StartInstants == {Instant(0, 23, 58, 0)}
LastInstant == Instant(0, 23, 58, 0) + Horizon

\* the clock advances by one tick
Tick ==
    /\ now < LastInstant
    /\ now' = now + 1
    /\ UNCHANGED <<alarms, workers, hist, lastOp, parsed, search, run>>

\* "23:59", "1min", "0min"
TimeSpecs ==
    { <<50, 51, 58, 53, 57>>, <<49, 109, 105, 110>>, <<48, 109, 105, 110>> }

\* the ids remove_alarm is called with
AlarmIds == 1..(MaxAlarms + 1)

NoCall == [called |-> FALSE, str |-> <<>>, ok |-> TRUE]
\* parsed: the utterance listen() returned (stage "heard"), then also what
\* parse_command made of it (stage "parsed")
NotParsed == [text |-> <<>>, stage |-> "idle", intent |-> "none", data |-> <<>>, has |-> FALSE]
\* search: one call of search_apps_by_name: the query, what the two discovery
\* functions return (stage "asked"), then also the result (stage "done")
NoSearch ==
    [query |-> <<>>, installed |-> <<>>, start_menu |-> <<>>, stage |-> "idle",
     results |-> <<>>]
\* run: the foreground loop (main_loop) and what handling the utterance of the
\* current cycle has done so far
\*   stage    "idle" (not started), "ready" (about to listen), "heard",
\*            "parsed", "handled" (the command was answered), "stopped"
\*   backend  LLM_BACKEND: "none", "ollama" or "transformers"
\*   said     what speak() was called with, in order
\*   opened   the calls of open_file: the target and whether it opened
\*   asked    the prompts ask_llm was called with
\*   spawned  the argument lists subprocess.Popen was called with by
\*            handle_command
\*   searched whether search_apps_by_name was called, found what it returned
\*   cause    why the loop stopped: "quit" (sys.exit in handle_command) or
\*            "interrupt" (KeyboardInterrupt)
\*   reply    what ask_llm returned to handle_command, when it was called
NoRun ==
    [stage |-> "idle", backend |-> "none", said |-> <<>>, opened |-> <<>>, asked |-> <<>>,
     spawned |-> <<>>, searched |-> FALSE, found |-> <<>>, cause |-> "none",
     reply |-> <<>>]

Init ==
    /\ now \in StartInstants
    /\ alarms = <<>>
    /\ workers = <<>>
    /\ hist = <<>>
    /\ lastOp = NoCall
    /\ parsed = NotParsed
    /\ search = NoSearch
    /\ run = NoRun

SetAlarm == \E ts \in TimeSpecs : set_alarm(ts, VoiceLabel)
RemoveAlarm == \E id \in AlarmIds : remove_alarm(id)
WorkerStart == \E k \in DOMAIN workers : alarm_worker_start(k)
WorkerWake == \E k \in DOMAIN workers : alarm_worker_wake(k)

Next ==
    \/ SetAlarm
    \/ RemoveAlarm
    \/ show_alarms
    \/ WorkerStart
    \/ WorkerWake
    \/ Tick

Spec == Init /\ [][Next]_vars

(***************************************************************************)
(* Properties of the scheduler.                                            *)
(***************************************************************************)
\* the state of the k-th alarm created: it is Cancelled once remove_alarm has
\* taken it out of the list before any notification, Fired once notified
AlarmState(k) ==
    IF hist[k].removed \in {"early", "due"} THEN "Cancelled"
    ELSE IF hist[k].fired > 0 THEN "Fired"
    ELSE "Pending"

\* C1: an alarm cancelled while Pending, before the clock reached its time, is
\* never notified afterwards.
C1_CancelledNeverNotified ==
    \A k \in DOMAIN hist : hist[k].removed = "early" => hist[k].fired = 0

\* C2: the ids of the alarms ever created are pairwise distinct and increase in
\* the order of creation.
C2_IdsDistinctIncreasing ==
    \A j, k \in DOMAIN hist : j < k => hist[j].alarm.id < hist[k].alarm.id

\* alarm_id names alarms already created, none of which is still Pending
NamesOnlyTerminal(alarm_id) ==
    /\ \E k \in DOMAIN hist : hist[k].alarm.id = alarm_id
    /\ \A k \in DOMAIN hist : hist[k].alarm.id = alarm_id => AlarmState(k) # "Pending"

\* C3: remove_alarm called for an id whose alarms are all Cancelled or Fired
\* changes neither the list, nor the result of get_alarms, nor the next id.
C3_RepeatedCancelNoOp ==
    [][\A id \in AlarmIds :
          (NamesOnlyTerminal(id) /\ remove_alarm(id)) =>
              /\ alarms' = alarms
              /\ get_alarms' = get_alarms
              /\ NewId(alarms') = NewId(alarms)]_vars

\* the alarms that are Pending with their time still ahead, in creation order
PendingAhead ==
    LET idx == SelectSeq([k \in DOMAIN hist |-> k],
                         LAMBDA k : AlarmState(k) = "Pending" /\ hist[k].alarm.time > now)
    IN  [i \in 1..Len(idx) |-> hist[idx[i]].alarm]

\* C4: get_alarms returns exactly the alarms that are Pending with their time
\* still ahead, in creation order.
C4_ListActiveExact == get_alarms = PendingAhead

\* C4 witness: a Fired alarm is still in the list, and get_alarms returns only
\* the other alarm, which is Pending
C4_Witness ==
    \E j, k \in DOMAIN hist :
        /\ AlarmState(j) = "Fired"
        /\ InList(alarms, j)
        /\ AlarmState(k) = "Pending"
        /\ get_alarms = <<hist[k].alarm>>

(***************************************************************************)
(* set_alarm on its own: one call, at one of a set of instants, with one   *)
(* of a set of time strings.                                               *)
(***************************************************************************)
\* hours up to this one, minutes up to this one and minute counts up to this
\* one are written into the time strings tried
MaxHourTried == 25
MaxMinuteTried == 61
MaxCountTried == 2
\* length of the strings over TriedChars that are all tried
MaxJunkLen == 3

\* decimal text of a natural number, and its two-digit text
RECURSIVE Dec(_)
Dec(n) == IF n < 10 THEN <<48 + n>> ELSE Dec(n \div 10) \o <<48 + (n % 10)>>
Two(n) == <<48 + ((n \div 10) % 10), 48 + (n % 10)>>

\* "H:MM" and "HH:MM"
ClockTexts ==
    UNION {{Two(h) \o <<Colon>> \o Two(m), Dec(h) \o <<Colon>> \o Two(m)} :
              h \in 0..MaxHourTried, m \in 0..MaxMinuteTried}

\* "mi", "minn", "minutess", "Min", "minuts"
WrongWords ==
    { <<109, 105>>, <<109, 105, 110, 110>>, <<109, 105, 110, 117, 116, 101, 115, 115>>,
      <<77, 105, 110>>, <<109, 105, 110, 117, 116, 115>> }

\* a count, with or without a sign or leading zeros, white space, a word, a tail
MinuteTexts ==
    {sign \o num \o ws \o word \o tail :
        sign \in {<<>>, <<45>>},
        num \in {Dec(n) : n \in 0..MaxCountTried} \cup {<<48, 48>>, <<48, 49>>},
        ws \in {<<>>, <<32>>, <<Newline>>, <<32, 9>>},
        word \in MinuteWords \cup WrongWords,
        tail \in {<<>>, <<Newline>>, <<32>>, <<Newline, Newline>>}}

\* "0", ":", "m", " ", newline
TriedChars == {48, Colon, 109, 32, Newline}
JunkTexts == UNION {[1..n -> TriedChars] : n \in 0..MaxJunkLen}

\* "123:45", "1:5", "12 3", ":30", "07:30:00", "7:3o", "7:30\n", "07:30\n\n"
OddTexts ==
    { <<49, 50, 51, 58, 52, 53>>, <<49, 58, 53>>, <<49, 50, 32, 51>>, <<58, 51, 48>>,
      <<48, 55, 58, 51, 48, 58, 48, 48>>, <<55, 58, 51, 111>>, <<55, 58, 51, 48, 10>>,
      <<48, 55, 58, 51, 48, 10, 10>> }

AllTimeSpecs == ClockTexts \cup MinuteTexts \cup JunkTexts \cup OddTexts

\* the instants the call is made at: on and off the minute, around the hours
\* 0, 7, 8 and 23
SampleInstants ==
    {Instant(0, h, m, s) : h \in {0, 7, 8, MaxHour}, m \in {0, 30, MaxMinute},
                           s \in 0..(TicksPerMinute - 1)}

InitSetAlarm ==
    /\ now \in SampleInstants
    /\ alarms = <<>>
    /\ workers = <<>>
    /\ hist = <<>>
    /\ lastOp = NoCall
    /\ parsed = NotParsed
    /\ search = NoSearch
    /\ run = NoRun

SetAlarmOnce ==
    /\ ~lastOp.called
    /\ \E ts \in AllTimeSpecs : set_alarm(ts, VoiceLabel)

NextSetAlarm == SetAlarmOnce

SpecSetAlarm == InitSetAlarm /\ [][NextSetAlarm]_vars

\* the alarm the one call created
Created == hist[1].alarm

\* s is the text of clock time h:m, written "H:MM" or "HH:MM"
IsClockText(s, h, m) ==
    s \in {Two(h) \o <<Colon>> \o Two(m), Dec(h) \o <<Colon>> \o Two(m)}

\* the hour and the minute a string of 4 or 5 characters would stand for
HourRead(s) == IF Len(s) = 5 THEN 10 * (s[1] - 48) + (s[2] - 48) ELSE s[1] - 48
MinuteRead(s) == 10 * (s[Len(s) - 1] - 48) + (s[Len(s)] - 48)

\* s is "H:MM" or "HH:MM" with the hour in 0..23 and the minute in 0..59
IsValidClockText(s) ==
    /\ Len(s) \in {4, 5}
    /\ HourRead(s) \in 0..MaxHour
    /\ MinuteRead(s) \in 0..MaxMinute
    /\ IsClockText(s, HourRead(s), MinuteRead(s))

\* C5: for a time string HH:MM with hour 0..23 and minute 0..59, at every
\* instant, set_alarm creates an alarm whose time is strictly in the future and
\* is the next occurrence of that clock time: at HH:MM sharp, after now and no
\* more than a day after now.
C5_NextOccurrence ==
    (lastOp.called /\ IsValidClockText(lastOp.str)) =>
        /\ lastOp.ok
        /\ Len(hist) = 1
        /\ alarms = <<Created>>
        /\ Created.time > now
        /\ Created.time <= now + DayTicks
        /\ Created.time % DayTicks =
              (HourRead(lastOp.str) * (MaxMinute + 1) + MinuteRead(lastOp.str)) * TicksPerMinute

\* C5 witness: "07:30" asked at 08:00 gives 07:30 of the next day
C5_Witness ==
    /\ lastOp.called
    /\ lastOp.ok
    /\ lastOp.str = <<48, 55, 58, 51, 48>>
    /\ now = Instant(0, 8, 0, 0)
    /\ Len(hist) = 1
    /\ Created.time = Instant(1, 7, 30, 0)

\* s is digits standing for a positive number followed by "min"
IsPositiveMin(s) ==
    \E i \in 1..Len(s) :
        /\ AllDigits(SubSeq(s, 1, i))
        /\ IntOf(SubSeq(s, 1, i)) > 0
        /\ SubSeq(s, i + 1, Len(s)) = s_min

IsPositiveMinutes(s) ==
    \E i \in 1..Len(s) : \E j \in i..Len(s) :
        /\ AllDigits(SubSeq(s, 1, i))
        /\ IntOf(SubSeq(s, 1, i)) > 0
        /\ AllSpace(SubSeq(s, i + 1, j))
        /\ SubSeq(s, j + 1, Len(s)) \in MinuteWords

\* s without one final newline, if it has one
ChompNewline(s) ==
    IF Len(s) > 0 /\ s[Len(s)] = Newline THEN SubSeq(s, 1, Len(s) - 1) ELSE s

\* the forms set_alarm accepts
IsAcceptedForm(s) ==
    \E b \in {s, ChompNewline(s)} : IsValidClockText(b) \/ IsPositiveMinutes(b)

IsNonPositiveCount(s) ==
    \E b \in {s, ChompNewline(s)} :
      \E i \in 1..Len(b) : \E j \in i..Len(b) :
        /\ \/ AllDigits(SubSeq(b, 1, i)) /\ IntOf(SubSeq(b, 1, i)) = 0
           \/ i >= 2 /\ b[1] = 45 /\ AllDigits(SubSeq(b, 2, i))
        /\ AllSpace(SubSeq(b, i + 1, j))
        /\ SubSeq(b, j + 1, Len(b)) \in MinuteWords

\* C7: set_alarm with a minute count that is zero or negative fails and creates
\* no alarm.
C7_NonPositiveRejected ==
    (lastOp.called /\ IsNonPositiveCount(lastOp.str)) =>
        (~lastOp.ok /\ hist = <<>> /\ alarms = <<>> /\ workers = <<>>)

\* C7 witness: "0min" was refused
C7_Witness ==
    /\ lastOp.called
    /\ lastOp.str = <<48, 109, 105, 110>>
    /\ ~lastOp.ok
    /\ alarms = <<>>

(***************************************************************************)
(* parse_command: the words of the patterns, as code points.  The names are *)
(* transliterations of the Russian words.                                  *)
(***************************************************************************)
w_vyhod == <<1074, 1099, 1093, 1086, 1076>>
w_vyjti == <<1074, 1099, 1081, 1090, 1080>>
w_stop == <<1089, 1090, 1086, 1087>>
w_quit == <<113, 117, 105, 116>>
w_exit == <<101, 120, 105, 116>>
w_hvatit == <<1093, 1074, 1072, 1090, 1080, 1090>>
\* t in ('...', ...): the quit phrases
QuitPhrases == {w_vyhod, w_vyjti, w_stop, w_quit, w_exit, w_hvatit}

w_pomosch == <<1087, 1086, 1084, 1086, 1097, 1100>>
w_chto_ty_umeesh == <<1095, 1090, 1086, 32, 1090, 1099, 32, 1091, 1084, 1077, 1077, 1096, 1100>>
\* the help phrases
HelpPhrases == {w_pomosch, w_chto_ty_umeesh}

w_budilniki == <<1073, 1091, 1076, 1080, 1083, 1100, 1085, 1080, 1082, 1080>>
w_alarms == <<97, 108, 97, 114, 109, 115>>
w_spisok_budilnikov == <<1089, 1087, 1080, 1089, 1086, 1082, 32, 1073, 1091, 1076, 1080, 1083, 1100, 1085, 1080, 1082, 1086, 1074>>
\* the phrases that list the alarms
ShowAlarmsPhrases == {w_budilniki, w_alarms, w_spisok_budilnikov}

w_vremya == <<1074, 1088, 1077, 1084, 1103>>
w_time == <<116, 105, 109, 101>>
w_skolko_vremeni == <<1089, 1082, 1086, 1083, 1100, 1082, 1086, 32, 1074, 1088, 1077, 1084, 1077, 1085, 1080>>
\* the phrases that ask the time
ShowTimePhrases == {w_vremya, w_time, w_skolko_vremeni}

w_sprosi == <<1089, 1087, 1088, 1086, 1089, 1080>>
w_ask == <<97, 115, 107>>
w_chto_takoe == <<1095, 1090, 1086, 32, 1090, 1072, 1082, 1086, 1077>>
w_kak == <<1082, 1072, 1082>>
w_pochemu == <<1087, 1086, 1095, 1077, 1084, 1091>>
w_rasskazhi == <<1088, 1072, 1089, 1089, 1082, 1072, 1078, 1080>>
\* the phrases that address the language model
AskPhrases == {w_sprosi, w_ask, w_chto_takoe, w_kak, w_pochemu, w_rasskazhi}

w_status_nejroseti == <<1089, 1090, 1072, 1090, 1091, 1089, 32, 1085, 1077, 1081, 1088, 1086, 1089, 1077, 1090, 1080>>
w_status_llm == <<1089, 1090, 1072, 1090, 1091, 1089, 32, 108, 108, 109>>
w_prover_nejroset == <<1087, 1088, 1086, 1074, 1077, 1088, 1100, 32, 1085, 1077, 1081, 1088, 1086, 1089, 1077, 1090, 1100>>
\* the phrases that ask the language model's status
CheckPhrases == {w_status_nejroseti, w_status_llm, w_prover_nejroset}

w_otkroj == <<1086, 1090, 1082, 1088, 1086, 1081>>
w_zapusti == <<1079, 1072, 1087, 1091, 1089, 1090, 1080>>
w_open == <<111, 112, 101, 110>>
w_start == <<115, 116, 97, 114, 116>>
\* (?:...|...|open|start): the verbs that open, in the order of the pattern
OpenVerbs == <<w_otkroj, w_zapusti, w_open, w_start>>

w_najdi_i_zapusti == <<1085, 1072, 1081, 1076, 1080, 32, 1080, 32, 1079, 1072, 1087, 1091, 1089, 1090, 1080>>
w_najdi_prilozhenie == <<1085, 1072, 1081, 1076, 1080, 32, 1087, 1088, 1080, 1083, 1086, 1078, 1077, 1085, 1080, 1077>>
w_zapusti_programmu == <<1079, 1072, 1087, 1091, 1089, 1090, 1080, 32, 1087, 1088, 1086, 1075, 1088, 1072, 1084, 1084, 1091>>
w_otkroj_programmu == <<1086, 1090, 1082, 1088, 1086, 1081, 32, 1087, 1088, 1086, 1075, 1088, 1072, 1084, 1084, 1091>>
\* the smart-search phrases, in the order of the list
SmartPhrases == <<w_najdi_i_zapusti, w_najdi_prilozhenie, w_zapusti_programmu, w_otkroj_programmu>>

w_budilnik == <<1073, 1091, 1076, 1080, 1083, 1100, 1085, 1080, 1082>>
w_postav_budilnik == <<1087, 1086, 1089, 1090, 1072, 1074, 1100, 32, 1073, 1091, 1076, 1080, 1083, 1100, 1085, 1080, 1082>>
w_ustanovi_budilnik == <<1091, 1089, 1090, 1072, 1085, 1086, 1074, 1080, 32, 1073, 1091, 1076, 1080, 1083, 1100, 1085, 1080, 1082>>
\* the alarm verbs, in the order of the pattern
AlarmWords == <<w_budilnik, w_postav_budilnik, w_ustanovi_budilnik>>

w_reshi == <<1088, 1077, 1096, 1080>>
w_poschitaj == <<1087, 1086, 1089, 1095, 1080, 1090, 1072, 1081>>
w_calculate == <<99, 97, 108, 99, 117, 108, 97, 116, 101>>
w_compute == <<99, 111, 109, 112, 117, 116, 101>>
w_solve == <<115, 111, 108, 118, 101>>
\* the verbs that compute, in the order of the pattern
MathVerbs == <<w_reshi, w_poschitaj, w_calculate, w_compute, w_solve>>

w_na == <<1085, 1072>>
w_cherez == <<1095, 1077, 1088, 1077, 1079>>
w_minut == <<1084, 1080, 1085, 1091, 1090>>

(***************************************************************************)
(* parse_command: the patterns.                                            *)
(***************************************************************************)
\* the outcome of a search: whether it matched and its group 1
NoGroup == [found |-> FALSE, group |-> <<>>]
Group(g) == [found |-> TRUE, group |-> g]

\* any(phrase in t for phrase in phrases)
AnyIn(t, phrases) == \E p \in phrases : Contains(t, p)

\* the first position from q on that holds no white space, Len(t) + 1 if none
SkipSpace(t, q) ==
    LET rest == {i \in q..Len(t) : ~IsSpace(t[i])}
    IN  IF rest = {} THEN Len(t) + 1 ELSE SetMin(rest)

\* the last position of the line that position q is in: "." matches no newline
LineEnd(t, q) ==
    LET nl == {i \in q..Len(t) : t[i] = Newline}
    IN  IF nl = {} THEN Len(t) ELSE SetMin(nl) - 1

\* verb\s+(.+) tried at position i: white space must follow the verb, and a
\* character that is no white space must follow that (t is stripped, so the
\* white space never runs to the end of t)
VerbTargetAt(t, i, verb) ==
    LET j == i + Len(verb)
        q == SkipSpace(t, j)
    IN  IF OccursAt(t, verb, i) /\ j <= Len(t) /\ IsSpace(t[j]) /\ q <= Len(t)
        THEN Group(SubSeq(t, q, LineEnd(t, q)))
        ELSE NoGroup

\* (\d{1,2}:\d{2}) tried at position q
ClockAt(t, q) ==
    IF /\ q + 4 <= Len(t)
       /\ IsDigit(t[q]) /\ IsDigit(t[q + 1]) /\ t[q + 2] = Colon
       /\ IsDigit(t[q + 3]) /\ IsDigit(t[q + 4])
    THEN Group(SubSeq(t, q, q + 4))
    ELSE IF /\ q + 3 <= Len(t)
            /\ IsDigit(t[q]) /\ t[q + 1] = Colon
            /\ IsDigit(t[q + 2]) /\ IsDigit(t[q + 3])
    THEN Group(SubSeq(t, q, q + 3))
    ELSE NoGroup

\* word\s*(?:na)?\s*(\d{1,2}:\d{2}) tried at position i
AlarmClockAt(t, i, word) ==
    IF ~OccursAt(t, word, i) THEN NoGroup
    ELSE LET j == SkipSpace(t, i + Len(word))
             withNa == IF OccursAt(t, w_na, j)
                       THEN ClockAt(t, SkipSpace(t, j + Len(w_na)))
                       ELSE NoGroup
         IN  IF withNa.found THEN withNa ELSE ClockAt(t, j)

\* word\s*(\d+)\s*(?:minut) tried at position i
InMinutesAt(t, i, word) ==
    IF ~OccursAt(t, word, i) THEN NoGroup
    ELSE LET j == SkipSpace(t, i + Len(word))
             d == DigitRun(SubSeq(t, j, Len(t)))
             k == SkipSpace(t, j + d)
         IN  IF d >= 1 /\ OccursAt(t, w_minut, k)
             THEN Group(SubSeq(t, j, j + d - 1))
             ELSE NoGroup

\* the pattern of a rule, tried at position i with w as its leading word
PatternAt(kind, t, i, w) ==
    CASE kind = "verb"  -> VerbTargetAt(t, i, w)
      [] kind = "alarm" -> AlarmClockAt(t, i, w)
      [] OTHER          -> InMinutesAt(t, i, w)

\* re.search of a pattern that starts with one of words: the leftmost position
\* where it matches, and there the first word of the pattern that matches
FirstMatch(t, words, kind) ==
    LET hits == {h \in (1..Len(t)) \X (1..Len(words)) :
                    PatternAt(kind, t, h[1], words[h[2]]).found}
    IN  IF hits = {} THEN NoGroup
        ELSE LET i0 == SetMin({h[1] : h \in hits})
                 a0 == SetMin({h[2] : h \in {x \in hits : x[1] = i0}})
             IN  PatternAt(kind, t, i0, words[a0])

\* re.search(r"(?:otkroj|zapusti|open|start)\s+(.+)", t)
OpenMatch(t) == FirstMatch(t, OpenVerbs, "verb")
\* re.search(r"(?:budilnik|postav budilnik|ustanovi budilnik)\s*(?:na)?\s*(\d{1,2}:\d{2})", t)
AlarmMatch(t) == FirstMatch(t, AlarmWords, "alarm")
\* re.search(r"(?:cherez)\s*(\d+)\s*(?:minut)", t)
InMinutesMatch(t) == FirstMatch(t, <<w_cherez>>, "minutes")
\* re.search(r"(?:reshi|poschitaj|calculate|compute|solve)\s+(.+)", t)
MathMatch(t) == FirstMatch(t, MathVerbs, "verb")

\* [0-9\s\+\-\*\/%\(\)\.\^e]
BareChars == (48..57) \cup {43, 45, 42, 47, 37, 40, 41, 46, 94, 101}
\* re.match(r"^[0-9\s\+\-\*\/%\(\)\.\^e]+$", t)
IsBare(t) == t # <<>> /\ \A i \in 1..Len(t) : t[i] \in BareChars \/ IsSpace(t[i])

\* s.replace(p, ''): every occurrence of p, from the left, taken out
RECURSIVE Remove(_, _)
Remove(s, p) ==
    LET occ == {i \in 1..Len(s) : OccursAt(s, p, i)}
    IN  IF occ = {} \/ p = <<>> THEN s
        ELSE SubSeq(s, 1, SetMin(occ) - 1)
                \o Remove(SubSeq(s, SetMin(occ) + Len(p), Len(s)), p)

\* any(phrase in t for phrase in [...]) for the smart-search phrases
SmartMatch(t) == \E a \in 1..Len(SmartPhrases) : Contains(t, SmartPhrases[a])
\* the loop over the phrases: the first phrase of the list that is in t is
\* taken out of t, and the rest is stripped
SmartName(t) ==
    LET a0 == SetMin({a \in 1..Len(SmartPhrases) : Contains(t, SmartPhrases[a])})
    IN  Strip(Remove(t, SmartPhrases[a0]))

(***************************************************************************)
(* parse_command.                                                          *)
(***************************************************************************)
\* (intent, data): has is FALSE when data is None
WithData(intent, data) == [intent |-> intent, data |-> data, has |-> TRUE]
NoData(intent) == [intent |-> intent, data |-> <<>>, has |-> FALSE]

\* a slip: the lower-cased, stripped text for the text
UnknownData_mut(text, t) == t
\* return ('unknown', text): the payload of 'unknown'
UnknownData(text, t) == text

\* the same rules with smart_launch tried before open_app
parse_command_mut(text) ==
    LET t == Strip(Lower(text))
    IN  IF t \in QuitPhrases THEN NoData("quit")
        ELSE IF AnyIn(t, HelpPhrases) THEN NoData("help")
        ELSE IF AnyIn(t, ShowAlarmsPhrases) THEN NoData("show_alarms")
        ELSE IF AnyIn(t, ShowTimePhrases) THEN NoData("show_time")
        ELSE IF AnyIn(t, AskPhrases) THEN WithData("ask_llm", text)
        ELSE IF AnyIn(t, CheckPhrases) THEN NoData("check_llm")
        ELSE IF SmartMatch(t) THEN WithData("smart_launch", SmartName(t))
        ELSE IF OpenMatch(t).found THEN WithData("open_app", Strip(OpenMatch(t).group))
        ELSE IF AlarmMatch(t).found THEN WithData("set_alarm", AlarmMatch(t).group)
        ELSE IF InMinutesMatch(t).found
             THEN WithData("set_alarm", InMinutesMatch(t).group \o s_min)
        ELSE IF MathMatch(t).found THEN WithData("solve_math", MathMatch(t).group)
        ELSE IF IsBare(t) THEN WithData("solve_math", t)
        ELSE WithData("unknown", UnknownData(text, t))

\* parse_command(text)
parse_command(text) ==
    LET t == Strip(Lower(text))
    IN  IF t \in QuitPhrases THEN NoData("quit")
        ELSE IF AnyIn(t, HelpPhrases) THEN NoData("help")
        ELSE IF AnyIn(t, ShowAlarmsPhrases) THEN NoData("show_alarms")
        ELSE IF AnyIn(t, ShowTimePhrases) THEN NoData("show_time")
        ELSE IF AnyIn(t, AskPhrases) THEN WithData("ask_llm", text)
        ELSE IF AnyIn(t, CheckPhrases) THEN NoData("check_llm")
        ELSE IF OpenMatch(t).found THEN WithData("open_app", Strip(OpenMatch(t).group))
        ELSE IF SmartMatch(t) THEN WithData("smart_launch", SmartName(t))
        ELSE IF AlarmMatch(t).found THEN WithData("set_alarm", AlarmMatch(t).group)
        ELSE IF InMinutesMatch(t).found
             THEN WithData("set_alarm", InMinutesMatch(t).group \o s_min)
        ELSE IF MathMatch(t).found THEN WithData("solve_math", MathMatch(t).group)
        ELSE IF IsBare(t) THEN WithData("solve_math", t)
        ELSE WithData("unknown", UnknownData(text, t))

(***************************************************************************)
(* The parser on its own: utterances are parsed one after the other.       *)
(***************************************************************************)
\* the utterances, in lower case; in the comments the Russian words are
\* transliterated
BaseUtterances ==
    {
      <<1074, 1099, 1093, 1086, 1076>>,  \* "vyhod"
      <<1089, 1090, 1086, 1087>>,  \* "stop"
      <<101, 120, 105, 116>>,  \* "exit"
      <<1074, 1099, 1093, 1086, 1076, 32, 1089, 1077, 1081, 1095, 1072, 1089>>,  \* "vyhod_sejchas"
      <<1087, 1086, 1084, 1086, 1097, 1100>>,  \* "pomosch"
      <<1095, 1090, 1086, 32, 1090, 1099, 32, 1091, 1084, 1077, 1077, 1096, 1100>>,  \* "chto_ty_umeesh"
      <<1087, 1086, 1082, 1072, 1078, 1080, 32, 1073, 1091, 1076, 1080, 1083, 1100, 1085, 1080, 1082, 1080>>,  \* "pokazhi_budilniki"
      <<97, 108, 97, 114, 109, 115>>,  \* "alarms"
      <<1089, 1082, 1086, 1083, 1100, 1082, 1086, 32, 1074, 1088, 1077, 1084, 1077, 1085, 1080>>,  \* "skolko_vremeni"
      <<116, 105, 109, 101, 114>>,  \* "timer"
      <<1095, 1090, 1086, 32, 1090, 1072, 1082, 1086, 1077, 32, 112, 121, 116, 104, 111, 110>>,  \* "chto_takoe_python"
      <<1082, 1072, 1082, 32, 1076, 1077, 1083, 1072>>,  \* "kak_dela"
      <<116, 97, 115, 107, 32, 53>>,  \* "task_5"
      <<1087, 1088, 1086, 1074, 1077, 1088, 1100, 32, 1085, 1077, 1081, 1088, 1086, 1089, 1077, 1090, 1100>>,  \* "prover_nejroset"
      <<1089, 1090, 1072, 1090, 1091, 1089, 32, 108, 108, 109>>,  \* "status_llm"
      <<1086, 1090, 1082, 1088, 1086, 1081, 32, 1082, 1072, 1083, 1100, 1082, 1091, 1083, 1103, 1090, 1086, 1088>>,  \* "otkroj_kalkulyator"
      <<111, 112, 101, 110, 32, 99, 104, 114, 111, 109, 101>>,  \* "open_chrome"
      <<115, 116, 97, 114, 116, 32, 32, 110, 111, 116, 101, 112, 97, 100>>,  \* "start__notepad"
      <<1079, 1072, 1087, 1091, 1089, 1090, 1080, 32, 115, 116, 101, 97, 109>>,  \* "zapusti_steam"
      <<1086, 1090, 1082, 1088, 1086, 1081>>,  \* "otkroj"
      <<111, 112, 101, 110, 101, 100>>,  \* "opened"
      <<114, 101, 111, 112, 101, 110, 32, 102, 105, 108, 101>>,  \* "reopen_file"
      <<1085, 1072, 1081, 1076, 1080, 32, 1080, 32, 1079, 1072, 1087, 1091, 1089, 1090, 1080, 32, 115, 116, 101, 97, 109>>,  \* "najdi_i_zapusti_steam"
      <<1085, 1072, 1081, 1076, 1080, 32, 1087, 1088, 1080, 1083, 1086, 1078, 1077, 1085, 1080, 1077, 32, 99, 104, 114, 111, 109, 101>>,  \* "najdi_prilozhenie_chrome"
      <<1079, 1072, 1087, 1091, 1089, 1090, 1080, 32, 1087, 1088, 1086, 1075, 1088, 1072, 1084, 1084, 1091, 32, 99, 104, 114, 111, 109, 101>>,  \* "zapusti_programmu_chrome"
      <<1086, 1090, 1082, 1088, 1086, 1081, 32, 1087, 1088, 1086, 1075, 1088, 1072, 1084, 1084, 1091, 32, 99, 104, 114, 111, 109, 101>>,  \* "otkroj_programmu_chrome"
      <<115, 116, 101, 97, 109, 32, 1085, 1072, 1081, 1076, 1080, 32, 1080, 32, 1079, 1072, 1087, 1091, 1089, 1090, 1080>>,  \* "steam_najdi_i_zapusti"
      <<1085, 1072, 1081, 1076, 1080, 32, 1087, 1088, 1080, 1083, 1086, 1078, 1077, 1085, 1080, 1077>>,  \* "najdi_prilozhenie"
      <<1085, 1072, 1081, 1076, 1080, 32, 1087, 1088, 1080, 1083, 1086, 1078, 1077, 1085, 1080, 1077, 32, 97, 32, 1085, 1072, 1081, 1076, 1080, 32, 1087, 1088, 1080, 1083, 1086, 1078, 1077, 1085, 1080, 1077, 32, 98>>,  \* "najdi_prilozhenie_a_najdi_prilozhenie_b"
      <<1087, 1086, 1089, 1090, 1072, 1074, 1100, 32, 1073, 1091, 1076, 1080, 1083, 1100, 1085, 1080, 1082, 32, 1085, 1072, 32, 48, 55, 58, 51, 48>>,  \* "postav_budilnik_na_07:30"
      <<1073, 1091, 1076, 1080, 1083, 1100, 1085, 1080, 1082, 32, 55, 58, 51, 48>>,  \* "budilnik_7:30"
      <<1091, 1089, 1090, 1072, 1085, 1086, 1074, 1080, 32, 1073, 1091, 1076, 1080, 1083, 1100, 1085, 1080, 1082, 32, 1085, 1072, 32, 50, 51, 58, 53, 57>>,  \* "ustanovi_budilnik_na_23:59"
      <<1073, 1091, 1076, 1080, 1083, 1100, 1085, 1080, 1082, 32, 1085, 1072, 32, 49, 50, 51, 58, 52, 53>>,  \* "budilnik_na_123:45"
      <<1073, 1091, 1076, 1080, 1083, 1100, 1085, 1080, 1082, 32, 1085, 1072, 48, 55, 58, 51, 48, 48>>,  \* "budilnik_na07:300"
      <<1073, 1091, 1076, 1080, 1083, 1100, 1085, 1080, 1082>>,  \* "budilnik"
      <<1095, 1077, 1088, 1077, 1079, 32, 49, 48, 32, 1084, 1080, 1085, 1091, 1090>>,  \* "cherez_10_minut"
      <<1095, 1077, 1088, 1077, 1079, 49, 48, 1084, 1080, 1085, 1091, 1090>>,  \* "cherez10minut"
      <<1085, 1072, 1087, 1086, 1084, 1085, 1080, 32, 1095, 1077, 1088, 1077, 1079, 32, 53, 32, 1084, 1080, 1085, 1091, 1090>>,  \* "napomni_cherez_5_minut"
      <<1095, 1077, 1088, 1077, 1079, 32, 1084, 1080, 1085, 1091, 1090>>,  \* "cherez_minut"
      <<1088, 1077, 1096, 1080, 32, 50, 43, 50>>,  \* "reshi_2+2"
      <<1087, 1086, 1089, 1095, 1080, 1090, 1072, 1081, 32, 51, 42, 51>>,  \* "poschitaj_3*3"
      <<115, 111, 108, 118, 101, 32, 120, 94, 50>>,  \* "solve_x^2"
      <<99, 97, 108, 99, 117, 108, 97, 116, 101, 32, 49, 32, 43, 32, 49>>,  \* "calculate_1_+_1"
      <<115, 111, 108, 118, 101>>,  \* "solve"
      <<50, 43, 50>>,  \* "2+2"
      <<40, 49, 43, 50, 41, 42, 51>>,  \* "(1+2)*3"
      <<49, 101, 53>>,  \* "1e5"
      <<50, 32, 43, 32, 50>>,  \* "2_+_2"
      <<101>>,  \* "e"
      <<50, 43, 50, 61, 52>>,  \* "2+2=4"
      <<1087, 1088, 1080, 1074, 1077, 1090>>,  \* "privet"
      <<>>,  \* ""
      <<1087, 1086, 1084, 1086, 1097, 1100, 32, 1074, 1099, 1093, 1086, 1076>>,  \* "pomosch_vyhod"
      <<1086, 1090, 1082, 1088, 1086, 1081, 32, 1074, 1088, 1077, 1084, 1103>>,  \* "otkroj_vremya"
      <<1082, 1072, 1082, 32, 1086, 1090, 1082, 1088, 1099, 1090, 1100, 32, 99, 104, 114, 111, 109, 101>>,  \* "kak_otkryt_chrome"
      <<111, 112, 101, 110, 32, 97, 108, 97, 114, 109, 115>>,  \* "open_alarms"
      <<1079, 1072, 1087, 1091, 1089, 1090, 1080, 32, 1073, 1091, 1076, 1080, 1083, 1100, 1085, 1080, 1082, 32, 55, 58, 51, 48>>,  \* "zapusti_budilnik_7:30"
      <<1089, 1087, 1088, 1086, 1089, 1080, 32, 1074, 1088, 1077, 1084, 1103>>,  \* "sprosi_vremya"
      <<1089, 1090, 1072, 1090, 1091, 1089, 32, 108, 108, 109, 32, 1082, 1072, 1082>>,  \* "status_llm_kak"
      <<1087, 1088, 1086, 1074, 1077, 1088, 1100, 32, 1085, 1077, 1081, 1088, 1086, 1089, 1077, 1090, 1100, 32, 111, 112, 101, 110, 32, 120>>,  \* "prover_nejroset_open_x"
      <<1088, 1077, 1096, 1080, 32, 50, 43, 50, 32, 1095, 1077, 1088, 1077, 1079, 32, 53, 32, 1084, 1080, 1085, 1091, 1090>>,  \* "reshi_2+2_cherez_5_minut"
      <<1087, 1086, 1089, 1090, 1072, 1074, 1100, 32, 1073, 1091, 1076, 1080, 1083, 1100, 1085, 1080, 1082, 32, 1085, 1072, 32, 48, 55, 58, 51, 48, 32, 1095, 1077, 1088, 1077, 1079, 32, 53, 32, 1084, 1080, 1085, 1091, 1090>>,  \* "postav_budilnik_na_07:30_cherez_5_minut"
      <<115, 111, 108, 118, 101, 32, 116, 105, 109, 101>>,  \* "solve_time"
      <<99, 111, 109, 112, 117, 116, 101, 32, 50, 43, 50, 10, 109, 111, 114, 101>>,  \* "compute_2+2\nmore"
      <<111, 112, 101, 110, 32, 97, 32, 32, 10, 98>>,  \* "open_a__\nb"
      <<111, 112, 101, 110, 10, 99>>,  \* "open\nc"
      <<115, 116, 97, 114, 116, 111, 112, 101, 110, 32, 120, 32, 121>>,  \* "startopen_x_y"
      <<1085, 1072, 1081, 1076, 1080, 32, 1087, 1088, 1080, 1083, 1086, 1078, 1077, 1085, 1080, 1077, 32, 111, 112, 101, 110, 32, 120>>,  \* "najdi_prilozhenie_open_x"
      <<1073, 1091, 1076, 1080, 1083, 1100, 1085, 1080, 1082, 32, 55, 58, 51, 48, 32, 1088, 1077, 1096, 1080, 32, 49>>,  \* "budilnik_7:30_reshi_1"
      <<99, 104, 114, 111, 109, 101, 32, 1086, 1090, 1082, 1088, 1086, 1081, 32, 1087, 1088, 1086, 1075, 1088, 1072, 1084, 1084, 1091>>  \* "chrome_otkroj_programmu"
    }

\* str.upper() on one character, for Latin a-z and Cyrillic U+0430..U+044F
UpperChar(c) ==
    IF c \in 97..122 THEN c - 32
    ELSE IF c \in 1072..1103 THEN c - 32
    ELSE c
Upper(s) == [i \in 1..Len(s) |-> UpperChar(s[i])]
\* the first letter in upper case
Capitalized(s) == [i \in 1..Len(s) |-> IF i = 1 THEN UpperChar(s[i]) ELSE s[i]]

\* each utterance as it is, in upper case, capitalized, and each of these with
\* white space around it
Utterances ==
    UNION {{u, Upper(u), Capitalized(u),
            <<32>> \o u \o <<32>>, <<32, 32>> \o Upper(u) \o <<Newline>>,
            <<9>> \o Capitalized(u)} : u \in BaseUtterances}

InitParse ==
    /\ now \in StartInstants
    /\ alarms = <<>>
    /\ workers = <<>>
    /\ hist = <<>>
    /\ lastOp = NoCall
    /\ parsed = NotParsed
    /\ search = NoSearch
    /\ run = NoRun

\* txt = listen()
Listen ==
    /\ parsed.stage # "heard"
    /\ \E text \in Utterances :
          parsed' = [text |-> text, stage |-> "heard", intent |-> "none", data |-> <<>>,
                     has |-> FALSE]
    /\ UNCHANGED <<now, alarms, workers, hist, lastOp, search, run>>

\* intent, data = parse_command(txt)
Parse ==
    /\ parsed.stage = "heard"
    /\ LET r == parse_command(parsed.text)
       IN  parsed' = [text |-> parsed.text, stage |-> "parsed", intent |-> r.intent,
                      data |-> r.data, has |-> r.has]
    /\ UNCHANGED <<now, alarms, workers, hist, lastOp, search, run>>

NextParse == Listen \/ Parse

SpecParse == InitParse /\ [][NextParse]_vars

(***************************************************************************)
(* Properties of the parser.                                               *)
(***************************************************************************)
\* the rules in the canonical order: rule k matches the lower-cased, stripped
\* utterance t
RuleMatches(k, t) ==
    CASE k = 1 -> t \in QuitPhrases
      [] k = 2 -> AnyIn(t, HelpPhrases)
      [] k = 3 -> AnyIn(t, ShowAlarmsPhrases)
      [] k = 4 -> AnyIn(t, ShowTimePhrases)
      [] k = 5 -> AnyIn(t, AskPhrases)
      [] k = 6 -> AnyIn(t, CheckPhrases)
      [] k = 7 -> OpenMatch(t).found
      [] k = 8 -> SmartMatch(t)
      [] k = 9 -> AlarmMatch(t).found
      [] k = 10 -> InMinutesMatch(t).found
      [] k = 11 -> MathMatch(t).found
      [] k = 12 -> IsBare(t)
      [] k = 13 -> TRUE

\* the intent and the payload rule k gives for the utterance text
RuleOutcome(k, text, t) ==
    CASE k = 1 -> NoData("quit")
      [] k = 2 -> NoData("help")
      [] k = 3 -> NoData("show_alarms")
      [] k = 4 -> NoData("show_time")
      [] k = 5 -> WithData("ask_llm", text)
      [] k = 6 -> NoData("check_llm")
      [] k = 7 -> WithData("open_app", Strip(OpenMatch(t).group))
      [] k = 8 -> WithData("smart_launch", SmartName(t))
      [] k = 9 -> WithData("set_alarm", AlarmMatch(t).group)
      [] k = 10 -> WithData("set_alarm", InMinutesMatch(t).group \o s_min)
      [] k = 11 -> WithData("solve_math", MathMatch(t).group)
      [] k = 12 -> WithData("solve_math", t)
      [] k = 13 -> WithData("unknown", text)

\* what parse_command returned
Returned == [intent |-> parsed.intent, data |-> parsed.data, has |-> parsed.has]
Normalized == Strip(Lower(parsed.text))

IntentKinds ==
    {"quit", "help", "show_alarms", "show_time", "ask_llm", "check_llm", "open_app",
     "smart_launch", "set_alarm", "solve_math", "unknown"}

\* C9: parse_command returns an intent of the closed set for every utterance,
\* and for an utterance that no pattern matches it returns unknown with the
\* utterance as it was given, not lower-cased and not stripped.
C9_TotalUnknownKeepsText ==
    parsed.stage = "parsed" =>
        /\ parsed.intent \in IntentKinds
        /\ (\A k \in 1..12 : ~RuleMatches(k, Normalized)) =>
              (parsed.intent = "unknown" /\ parsed.has /\ parsed.data = parsed.text)

\* C9 witness: an utterance with upper case or white space around it came back
\* as unknown
C9_Witness ==
    /\ parsed.stage = "parsed"
    /\ parsed.intent = "unknown"
    /\ parsed.text # Normalized
    /\ parsed.data = parsed.text

\* "steam", "chrome"
AppNames == {<<115, 116, 101, 97, 109>>, <<99, 104, 114, 111, 109, 101>>}

\* C10: a smart-search phrase followed by an application name is parsed as
\* smart_launch with the name as payload.
C10_SmartPhraseIsSmartLaunch ==
    parsed.stage = "parsed" =>
        \A a \in 1..Len(SmartPhrases) : \A name \in AppNames :
            parsed.text = SmartPhrases[a] \o <<32>> \o name =>
                (parsed.intent = "smart_launch" /\ parsed.has /\ parsed.data = name)

(***************************************************************************)
(* search_apps_by_name: the application inventory and the search in it.    *)
(***************************************************************************)
\* An inventory is a Python dict in insertion order: a sequence of records
\* with distinct keys; key is the dict key, name and path are app_info's
\* 'name' and 'path'.

\* results[:5]
MaxResults == 5

\* d.update(e): the value of a key d has already is replaced in place, a new
\* key is appended, in the order of e
RECURSIVE Update(_, _)
Update(d, e) ==
    IF e = <<>> THEN d
    ELSE LET r == Head(e)
             at == {i \in 1..Len(d) : d[i].key = r.key}
         IN  Update(IF at = {} THEN Append(d, r)
                    ELSE [i \in 1..Len(d) |-> IF i \in at THEN r ELSE d[i]],
                    Tail(e))

\* query.split(): the maximal runs of characters other than white space
Split(q) ==
    {SubSeq(q, i, j) : <<i, j>> \in
        {w \in (1..Len(q)) \X (1..Len(q)) :
            /\ w[1] <= w[2]
            /\ \A k \in w[1]..w[2] : ~IsSpace(q[k])
            /\ (w[1] = 1 \/ IsSpace(q[w[1] - 1]))
            /\ (w[2] = Len(q) \/ IsSpace(q[w[2] + 1]))}}

\* app_name = app_info['name'].lower()
AppName_mut(r) == r.name
AppName(r) == Lower(r.name)

\* query == app_key or query in app_name
IsExactMatch_mut(query, r) == query = r.key
IsExactMatch(query, r) == query = r.key \/ Contains(AppName(r), query)

\* any(word in app_key or word in app_name for word in query.split())
IsPartialMatch(query, r) ==
    \E word \in Split(query) : Contains(r.key, word) \/ Contains(AppName(r), word)

\* results = exact_matches + partial_matches; return results[:5]
Ranked_mut(exact_matches, partial_matches) == exact_matches \o partial_matches
Ranked(exact_matches, partial_matches) ==
    LET results == exact_matches \o partial_matches
    IN  SubSeq(results, 1, IF Len(results) < MaxResults THEN Len(results) ELSE MaxResults)

\* all_apps = {}; all_apps.update(find_installed_apps());
\* all_apps.update(find_start_menu_apps())
AllApps(installed, start_menu) == Update(Update(<<>>, installed), start_menu)

search_apps_by_name(query0, installed, start_menu) ==
    LET query == Strip(Lower(query0))
        all_apps == AllApps(installed, start_menu)
        exact_matches == SelectSeq(all_apps, LAMBDA r : IsExactMatch(query, r))
        partial_matches ==
            SelectSeq(all_apps,
                      LAMBDA r : ~IsExactMatch(query, r) /\ IsPartialMatch(query, r))
    IN  Ranked(exact_matches, partial_matches)

(***************************************************************************)
(* Specification SpecResolve: searches of the inventory.                   *)
(***************************************************************************)
\* Records as find_installed_apps builds them: the key is the display name
\* without its version and parenthesis, lower-cased.
\* key "chrome apps", name "Chrome Apps 2.0", path "/a"
r_chrome_apps ==
    [key |-> <<99, 104, 114, 111, 109, 101, 32, 97, 112, 112, 115>>,
     name |-> <<67, 104, 114, 111, 109, 101, 32, 65, 112, 112, 115, 32, 50, 46, 48>>,
     path |-> <<47, 97>>]
\* key "chromium", name "Chromium", path "/b"
r_chromium ==
    [key |-> <<99, 104, 114, 111, 109, 105, 117, 109>>,
     name |-> <<67, 104, 114, 111, 109, 105, 117, 109>>,
     path |-> <<47, 98>>]
\* key "google chrome beta", name "Google Chrome Beta", path "/c"
r_google_chrome_beta ==
    [key |-> <<103, 111, 111, 103, 108, 101, 32, 99, 104, 114, 111, 109, 101, 32, 98, 101, 116, 97>>,
     name |-> <<71, 111, 111, 103, 108, 101, 32, 67, 104, 114, 111, 109, 101, 32, 66, 101, 116, 97>>,
     path |-> <<47, 99>>]
\* key "google chrome", name "Google Chrome", path "/d"
r_google_chrome ==
    [key |-> <<103, 111, 111, 103, 108, 101, 32, 99, 104, 114, 111, 109, 101>>,
     name |-> <<71, 111, 111, 103, 108, 101, 32, 67, 104, 114, 111, 109, 101>>,
     path |-> <<47, 100>>]
\* key "steam", name "Steam", path "/e"
r_steam ==
    [key |-> <<115, 116, 101, 97, 109>>,
     name |-> <<83, 116, 101, 97, 109>>,
     path |-> <<47, 101>>]
\* key "google earth", name "Google Earth (x64)", path "/f"
r_google_earth ==
    [key |-> <<103, 111, 111, 103, 108, 101, 32, 101, 97, 114, 116, 104>>,
     name |-> <<71, 111, 111, 103, 108, 101, 32, 69, 97, 114, 116, 104, 32, 40, 120, 54, 52, 41>>,
     path |-> <<47, 102>>]
\* key "chrome remote", name "chrome remote", path "/g"
r_chrome_remote ==
    [key |-> <<99, 104, 114, 111, 109, 101, 32, 114, 101, 109, 111, 116, 101>>,
     name |-> <<99, 104, 114, 111, 109, 101, 32, 114, 101, 109, 111, 116, 101>>,
     path |-> <<47, 103>>]
\* Records as find_start_menu_apps builds them from the shortcut files.
\* key "google chrome", name "Google Chrome", path "/h.lnk"
l_google_chrome ==
    [key |-> <<103, 111, 111, 103, 108, 101, 32, 99, 104, 114, 111, 109, 101>>,
     name |-> <<71, 111, 111, 103, 108, 101, 32, 67, 104, 114, 111, 109, 101>>,
     path |-> <<47, 104, 46, 108, 110, 107>>]
\* key "google drive", name "Google Drive", path "/i.lnk"
l_google_drive ==
    [key |-> <<103, 111, 111, 103, 108, 101, 32, 100, 114, 105, 118, 101>>,
     name |-> <<71, 111, 111, 103, 108, 101, 32, 68, 114, 105, 118, 101>>,
     path |-> <<47, 105, 46, 108, 110, 107>>]

RegistryPool ==
    <<r_chrome_apps, r_chromium, r_google_chrome_beta, r_google_chrome, r_steam,
      r_google_earth, r_chrome_remote>>

\* what find_installed_apps may return: the records of the pool that are
\* installed, in the order of the registry
InstalledSets ==
    {SelectSeq(RegistryPool, LAMBDA r : r \in S) :
        S \in SUBSET {RegistryPool[i] : i \in 1..Len(RegistryPool)}}

\* what find_start_menu_apps may return
StartMenuSets == {<<>>, <<l_google_chrome, l_google_drive>>}

\* the queries tried: "chrome", " Chrome ", "google chrome", "chrom", "", "zzz", "open steam"
Queries ==
    {<<99, 104, 114, 111, 109, 101>>,
     <<32, 67, 104, 114, 111, 109, 101, 32>>,
     <<103, 111, 111, 103, 108, 101, 32, 99, 104, 114, 111, 109, 101>>,
     <<99, 104, 114, 111, 109>>,
     <<>>,
     <<122, 122, 122>>,
     <<111, 112, 101, 110, 32, 115, 116, 101, 97, 109>>}

InitResolve ==
    /\ now \in StartInstants
    /\ alarms = <<>>
    /\ workers = <<>>
    /\ hist = <<>>
    /\ lastOp = NoCall
    /\ parsed = NotParsed
    /\ search = NoSearch
    /\ run = NoRun

\* a caller passes a query, and the two discovery functions find an inventory
Ask ==
    /\ search.stage # "asked"
    /\ \E query \in Queries, installed \in InstalledSets, start_menu \in StartMenuSets :
          search' = [query |-> query, installed |-> installed, start_menu |-> start_menu,
                     stage |-> "asked", results |-> <<>>]
    /\ UNCHANGED <<now, alarms, workers, hist, lastOp, parsed, run>>

\* search_apps_by_name(query)
Search ==
    /\ search.stage = "asked"
    /\ search' = [search EXCEPT
                    !.stage = "done",
                    !.results = search_apps_by_name(search.query, search.installed,
                                                    search.start_menu)]
    /\ UNCHANGED <<now, alarms, workers, hist, lastOp, parsed, run>>

NextResolve == Ask \/ Search

SpecResolve == InitResolve /\ [][NextResolve]_vars

(***************************************************************************)
(* Claims about the search (specification SpecResolve).                    *)
(***************************************************************************)
\* the query as the search compares it, and the merged inventory searched
SearchedQuery == Strip(Lower(search.query))
Inventory == AllApps(search.installed, search.start_menu)

\* C11: the search returns at most 5 candidates, and no Partial candidate
\* comes before an Exact candidate in the result.
C11_AtMostFiveExactFirst ==
    search.stage = "done" =>
        /\ Len(search.results) <= 5
        /\ \A i, j \in 1..Len(search.results) :
              (i < j /\ IsExactMatch(SearchedQuery, search.results[j]))
                  => IsExactMatch(SearchedQuery, search.results[i])

\* C11 witness: more than 5 records match, a Partial one comes before an Exact
\* one in the inventory, and the 5 returned hold both classes
C11_Witness ==
    /\ search.stage = "done"
    /\ Len(search.results) = 5
    /\ Cardinality({i \in 1..Len(Inventory) :
                       \/ IsExactMatch(SearchedQuery, Inventory[i])
                       \/ IsPartialMatch(SearchedQuery, Inventory[i])}) > 5
    /\ \E i, j \in 1..Len(Inventory) :
          /\ i < j
          /\ ~IsExactMatch(SearchedQuery, Inventory[i])
          /\ IsPartialMatch(SearchedQuery, Inventory[i])
          /\ IsExactMatch(SearchedQuery, Inventory[j])
    /\ IsExactMatch(SearchedQuery, search.results[1])
    /\ ~IsExactMatch(SearchedQuery, search.results[5])

\* p is a substring of s
IsSubstring(p, s) == \E i \in 0..(Len(s) - Len(p)) : SubSeq(s, i + 1, i + Len(p)) = p

\* w is a token of q: a run of q without white space that white space or the
\* ends of q delimit
IsToken(w, q) ==
    /\ w # <<>>
    /\ \A k \in 1..Len(w) : ~IsSpace(w[k])
    /\ \E i \in 0..(Len(q) - Len(w)) :
          /\ SubSeq(q, i + 1, i + Len(w)) = w
          /\ (i = 0 \/ IsSpace(q[i]))
          /\ (i + Len(w) = Len(q) \/ IsSpace(q[i + Len(w) + 1]))
TokensOf(q) ==
    {w \in {SubSeq(q, i, j) : i \in 1..Len(q), j \in 1..Len(q)} : IsToken(w, q)}

\* the display name of a record, as written or lower-cased
DisplayName(r, lowered) == IF lowered THEN Lower(r.name) ELSE r.name

\* the class of record r for the normalized query q
ClassOf(q, r, lowered) ==
    IF q = r.key \/ IsSubstring(q, DisplayName(r, lowered)) THEN "Exact"
    ELSE IF \E w \in TokensOf(q) :
                IsSubstring(w, r.key) \/ IsSubstring(w, DisplayName(r, lowered))
         THEN "Partial"
    ELSE "None"

\* the first 5 of the Exact records in inventory order, then the Partial ones
FirstFiveRanked(q, lowered) ==
    LET ranked == SelectSeq(Inventory, LAMBDA r : ClassOf(q, r, lowered) = "Exact")
                  \o SelectSeq(Inventory, LAMBDA r : ClassOf(q, r, lowered) = "Partial")
    IN  [i \in 1..(IF Len(ranked) < 5 THEN Len(ranked) ELSE 5) |-> ranked[i]]

\* C12 as stated: a record is Exact when the normalized query equals its key
\* or is a substring of its display name, else Partial when a token of the
\* query occurs in its key or its display name, else no match; the result is
\* the first 5 of the Exact records then the Partial records, in inventory
\* order.
C12_ClassifiedByDisplayName ==
    search.stage = "done" => search.results = FirstFiveRanked(SearchedQuery, FALSE)

\* C12 amended: the same with the display name lower-cased before the query
\* and its tokens are looked for in it.
C12_ClassifiedByLoweredName ==
    search.stage = "done" =>
        /\ search.results = FirstFiveRanked(SearchedQuery, TRUE)
        /\ \A i \in 1..Len(search.results) :
              ClassOf(SearchedQuery, search.results[i], TRUE) # "None"

\* C12 witness: the inventory holds records of all three classes, one of them
\* Exact by its lower-cased display name only, and the result was cut to 5
C12_Witness ==
    /\ search.stage = "done"
    /\ Len(search.results) = 5
    /\ \E a, b, c \in 1..Len(Inventory) :
          /\ ClassOf(SearchedQuery, Inventory[a], TRUE) = "Exact"
          /\ ClassOf(SearchedQuery, Inventory[a], FALSE) # "Exact"
          /\ ClassOf(SearchedQuery, Inventory[b], TRUE) = "Partial"
          /\ ClassOf(SearchedQuery, Inventory[c], TRUE) = "None"
    /\ \E i \in 1..Len(Inventory) :
          /\ ClassOf(SearchedQuery, Inventory[i], TRUE) = "Partial"
          /\ \A j \in 1..5 : search.results[j] # Inventory[i]

\* "chrome"
q_chrome == <<99, 104, 114, 111, 109, 101>>

\* resolve("chrome") against the inventory whose keys are "google chrome" and
\* "chromium" (display names "Google Chrome" and "Chromium")
ChromeScenario ==
    /\ search.stage = "done"
    /\ search.query = q_chrome
    /\ Len(Inventory) = 2
    /\ {Inventory[i] : i \in 1..2} = {r_google_chrome, r_chromium}

\* C13 as stated: both records are returned, "google chrome" classed Exact and
\* "chromium" classed Partial.
C13_ChromeFindsBoth ==
    ChromeScenario =>
        /\ {search.results[i] : i \in 1..Len(search.results)}
              = {r_google_chrome, r_chromium}
        /\ IsExactMatch(q_chrome, r_google_chrome)
        /\ ~IsExactMatch(q_chrome, r_chromium)
        /\ IsPartialMatch(q_chrome, r_chromium)

\* C13 amended: only "google chrome" is returned, classed Exact; "chromium" is
\* neither Exact nor Partial, since "chrome" does not occur in "chromium".
C13_ChromeFindsChromeOnly ==
    ChromeScenario =>
        /\ search.results = <<r_google_chrome>>
        /\ IsExactMatch(q_chrome, r_google_chrome)
        /\ ~IsExactMatch(q_chrome, r_chromium)
        /\ ~IsPartialMatch(q_chrome, r_chromium)

\* C13 witness: the scenario was searched and returned one record
C13_Witness == ChromeScenario /\ Len(search.results) = 1

(***************************************************************************)
(* smart_app_launch: the search, then a direct launch or the choice of the *)
(* language model.                                                         *)
(***************************************************************************)
\* what speak() is given: the message, and the text or the names put into it
Resp(msg, text, names) == [msg |-> msg, text |-> text, names |-> names]
\* what ask_llm() is given: the prompt, and the text and the names put into it
Prompt(kind, text, names) == [kind |-> kind, text |-> text, names |-> names]

\* if not LLM_BACKEND
Available(backend) == backend # "none"

\* open_file(target) where the targets of the set launchable open and the
\* others make the platform's opener raise: the call, with its result
OpenFile(target, launchable) == [target |-> target, ok |-> target \in launchable]

\* numbers = re.findall(r'\d+', response); if numbers
HasNumber(response) == \E i \in 1..Len(response) : IsDigit(response[i])
\* numbers[0]: the first maximal run of digits
FirstNumber(response) ==
    LET i == SetMin({k \in 1..Len(response) : IsDigit(response[k])})
        j == SetMax({k \in i..Len(response) : AllDigits(SubSeq(response, i, k))})
    IN  SubSeq(response, i, j)

\* choice = int(numbers[0]) - 1
\* a slip: the number taken as the 0-based index
Choice_mut(response) == IntOf(FirstNumber(response))
Choice(response) == IntOf(FirstNumber(response)) - 1

\* 0 <= choice < len(found_apps)
InRange(choice, found_apps) == 0 <= choice /\ choice < Len(found_apps)

\* [app_info['name'] for (_, app_info) in found_apps], the numbered list
NamesOf(found_apps) == [i \in 1..Len(found_apps) |-> found_apps[i].name]

\* app_path = app_info['path']; open_file(app_path) and the sentence returned
LaunchFound(app, launchable) ==
    LET call == OpenFile(app.path, launchable)
    IN  [opened |-> <<call>>,
         result |-> IF call.ok THEN Resp("launching", app.name, <<>>)
                    ELSE Resp("launch_failed", app.name, <<>>)]

\* if len(found_apps) == 1
\* a slip: the single candidate is put to the language model like several
LaunchesDirectly_mut(found_apps) == Len(found_apps) < 1
LaunchesDirectly(found_apps) == Len(found_apps) = 1

\* smart_app_launch(query), where the discovery functions return installed
\* and start_menu, ask_llm returns reply and the targets of launchable open:
\* the sentence returned and the calls made
smart_app_launch(query, backend, installed, start_menu, reply, launchable) ==
    IF ~Available(backend)
    THEN [result |-> Resp("search_needs_llm", <<>>, <<>>), searched |-> FALSE,
          found |-> <<>>, asked |-> <<>>, opened |-> <<>>]
    ELSE LET found_apps == search_apps_by_name(query, installed, start_menu)
             base == [result |-> Resp("none", <<>>, <<>>), searched |-> TRUE,
                      found |-> found_apps, asked |-> <<>>, opened |-> <<>>]
         IN  IF found_apps = <<>>
             THEN [base EXCEPT !.asked = <<Prompt("not_found", query, <<>>)>>,
                               !.result = Resp("answer", reply, <<>>)]
             ELSE IF LaunchesDirectly(found_apps)
             THEN LET l == LaunchFound(found_apps[1], launchable)
                  IN  [base EXCEPT !.opened = l.opened, !.result = l.result]
             ELSE LET asked == <<Prompt("choose", query, NamesOf(found_apps))>>
                  IN  IF HasNumber(reply) /\ InRange(Choice(reply), found_apps)
                      THEN LET l == LaunchFound(found_apps[Choice(reply) + 1], launchable)
                           IN  [base EXCEPT !.asked = asked, !.opened = l.opened,
                                            !.result = l.result]
                      ELSE [base EXCEPT !.asked = asked,
                                        !.result = Resp("several_found", <<>>,
                                                        NamesOf(found_apps))]

(***************************************************************************)
(* The open_app branch of handle_command.                                  *)
(***************************************************************************)
\* the dict known: for each name, what to open on each platform (a list of
\* programs or paths, one string, or nothing)
known ==
    <<
    \* 'kalkulyator'
    \*   Windows:
    \*     'calc.exe'
    \*   Darwin:
    \*     'open -a Calculator'
    \*   Linux:
    \*     'gnome-calculator'
    [key |-> <<1082, 1072, 1083, 1100, 1082, 1091, 1083, 1103, 1090, 1086, 1088>>,
     Windows |-> [kind |-> "str", apps |-> <<<<99, 97, 108, 99, 46, 101, 120, 101>>>>],
     Darwin |-> [kind |-> "str", apps |-> <<<<111, 112, 101, 110, 32, 45, 97, 32, 67, 97, 108, 99, 117, 108, 97, 116, 111, 114>>>>],
     Linux |-> [kind |-> "str", apps |-> <<<<103, 110, 111, 109, 101, 45, 99, 97, 108, 99, 117, 108, 97, 116, 111, 114>>>>]],
    \* 'bloknot'
    \*   Windows:
    \*     'notepad.exe'
    \*   Darwin:
    \*     'open -a TextEdit'
    \*   Linux:
    \*     'gedit'
    [key |-> <<1073, 1083, 1086, 1082, 1085, 1086, 1090>>,
     Windows |-> [kind |-> "str", apps |-> <<<<110, 111, 116, 101, 112, 97, 100, 46, 101, 120, 101>>>>],
     Darwin |-> [kind |-> "str", apps |-> <<<<111, 112, 101, 110, 32, 45, 97, 32, 84, 101, 120, 116, 69, 100, 105, 116>>>>],
     Linux |-> [kind |-> "str", apps |-> <<<<103, 101, 100, 105, 116>>>>]],
    \* 'Google'
    \*   Windows:
    \*     'chrome.exe'
    \*     'google-chrome.exe'
    \*     'Google Chrome'
    \*   Darwin:
    \*     'open -a "Google Chrome"'
    \*   Linux:
    \*     'google-chrome'
    \*     'chromium-browser'
    [key |-> <<71, 111, 111, 103, 108, 101>>,
     Windows |-> [kind |-> "list", apps |-> <<<<99, 104, 114, 111, 109, 101, 46, 101, 120, 101>>,
            <<103, 111, 111, 103, 108, 101, 45, 99, 104, 114, 111, 109, 101, 46, 101, 120, 101>>,
            <<71, 111, 111, 103, 108, 101, 32, 67, 104, 114, 111, 109, 101>>>>],
     Darwin |-> [kind |-> "str", apps |-> <<<<111, 112, 101, 110, 32, 45, 97, 32, 34, 71, 111, 111, 103, 108, 101, 32, 67, 104, 114, 111, 109, 101, 34>>>>],
     Linux |-> [kind |-> "list", apps |-> <<<<103, 111, 111, 103, 108, 101, 45, 99, 104, 114, 111, 109, 101>>,
            <<99, 104, 114, 111, 109, 105, 117, 109, 45, 98, 114, 111, 119, 115, 101, 114>>>>]],
    \* 'Chrome'
    \*   Windows:
    \*     'chrome.exe'
    \*     'google-chrome.exe'
    \*     'Google Chrome'
    \*   Darwin:
    \*     'open -a "Google Chrome"'
    \*   Linux:
    \*     'google-chrome'
    \*     'chromium-browser'
    [key |-> <<67, 104, 114, 111, 109, 101>>,
     Windows |-> [kind |-> "list", apps |-> <<<<99, 104, 114, 111, 109, 101, 46, 101, 120, 101>>,
            <<103, 111, 111, 103, 108, 101, 45, 99, 104, 114, 111, 109, 101, 46, 101, 120, 101>>,
            <<71, 111, 111, 103, 108, 101, 32, 67, 104, 114, 111, 109, 101>>>>],
     Darwin |-> [kind |-> "str", apps |-> <<<<111, 112, 101, 110, 32, 45, 97, 32, 34, 71, 111, 111, 103, 108, 101, 32, 67, 104, 114, 111, 109, 101, 34>>>>],
     Linux |-> [kind |-> "list", apps |-> <<<<103, 111, 111, 103, 108, 101, 45, 99, 104, 114, 111, 109, 101>>,
            <<99, 104, 114, 111, 109, 105, 117, 109, 45, 98, 114, 111, 119, 115, 101, 114>>>>]],
    \* 'Firefox'
    \*   Windows:
    \*     'firefox.exe'
    \*   Darwin:
    \*     'open -a Firefox'
    \*   Linux:
    \*     'firefox'
    [key |-> <<70, 105, 114, 101, 102, 111, 120>>,
     Windows |-> [kind |-> "str", apps |-> <<<<102, 105, 114, 101, 102, 111, 120, 46, 101, 120, 101>>>>],
     Darwin |-> [kind |-> "str", apps |-> <<<<111, 112, 101, 110, 32, 45, 97, 32, 70, 105, 114, 101, 102, 111, 120>>>>],
     Linux |-> [kind |-> "str", apps |-> <<<<102, 105, 114, 101, 102, 111, 120>>>>]],
    \* 'cs'
    \*   Windows:
    \*     'C:\Program Files (x86)\Steam\steamapps\common\Counter-Strike Global Offensive\game\bin\win64\cs2.exe'
    \*     'C:\Program Files\Steam\steamapps\common\Counter-Strike Global Offensive\game\bin\win64\cs2.exe'
    [key |-> <<99, 115>>,
     Windows |-> [kind |-> "list", apps |-> <<<<67, 58, 92, 80, 114, 111, 103, 114, 97, 109, 32, 70, 105, 108, 101, 115, 32, 40, 120, 56, 54, 41, 92, 83, 116, 101, 97, 109, 92, 115, 116, 101, 97, 109, 97, 112, 112, 115, 92, 99, 111, 109, 109, 111, 110, 92, 67, 111, 117, 110, 116, 101, 114, 45, 83, 116, 114, 105, 107, 101, 32, 71, 108, 111, 98, 97, 108, 32, 79, 102, 102, 101, 110, 115, 105, 118, 101, 92, 103, 97, 109, 101, 92, 98, 105, 110, 92, 119, 105, 110, 54, 52, 92, 99, 115, 50, 46, 101, 120, 101>>,
            <<67, 58, 92, 80, 114, 111, 103, 114, 97, 109, 32, 70, 105, 108, 101, 115, 92, 83, 116, 101, 97, 109, 92, 115, 116, 101, 97, 109, 97, 112, 112, 115, 92, 99, 111, 109, 109, 111, 110, 92, 67, 111, 117, 110, 116, 101, 114, 45, 83, 116, 114, 105, 107, 101, 32, 71, 108, 111, 98, 97, 108, 32, 79, 102, 102, 101, 110, 115, 105, 118, 101, 92, 103, 97, 109, 101, 92, 98, 105, 110, 92, 119, 105, 110, 54, 52, 92, 99, 115, 50, 46, 101, 120, 101>>>>],
     Darwin |-> [kind |-> "none", apps |-> <<>>],
     Linux |-> [kind |-> "none", apps |-> <<>>]],
    \* 'ks_go'
    \*   Windows:
    \*     'C:\Program Files (x86)\Steam\steamapps\common\Counter-Strike Global Offensive\game\bin\win64\cs2.exe'
    \*     'C:\Program Files\Steam\steamapps\common\Counter-Strike Global Offensive\game\bin\win64\cs2.exe'
    [key |-> <<1082, 1089, 32, 1075, 1086>>,
     Windows |-> [kind |-> "list", apps |-> <<<<67, 58, 92, 80, 114, 111, 103, 114, 97, 109, 32, 70, 105, 108, 101, 115, 32, 40, 120, 56, 54, 41, 92, 83, 116, 101, 97, 109, 92, 115, 116, 101, 97, 109, 97, 112, 112, 115, 92, 99, 111, 109, 109, 111, 110, 92, 67, 111, 117, 110, 116, 101, 114, 45, 83, 116, 114, 105, 107, 101, 32, 71, 108, 111, 98, 97, 108, 32, 79, 102, 102, 101, 110, 115, 105, 118, 101, 92, 103, 97, 109, 101, 92, 98, 105, 110, 92, 119, 105, 110, 54, 52, 92, 99, 115, 50, 46, 101, 120, 101>>,
            <<67, 58, 92, 80, 114, 111, 103, 114, 97, 109, 32, 70, 105, 108, 101, 115, 92, 83, 116, 101, 97, 109, 92, 115, 116, 101, 97, 109, 97, 112, 112, 115, 92, 99, 111, 109, 109, 111, 110, 92, 67, 111, 117, 110, 116, 101, 114, 45, 83, 116, 114, 105, 107, 101, 32, 71, 108, 111, 98, 97, 108, 32, 79, 102, 102, 101, 110, 115, 105, 118, 101, 92, 103, 97, 109, 101, 92, 98, 105, 110, 92, 119, 105, 110, 54, 52, 92, 99, 115, 50, 46, 101, 120, 101>>>>],
     Darwin |-> [kind |-> "none", apps |-> <<>>],
     Linux |-> [kind |-> "none", apps |-> <<>>]],
    \* 'dota'
    \*   Windows:
    \*     'C:\Program Files (x86)\Steam\steamapps\common\dota 2 beta\game\bin\win64\dota2.exe'
    \*     'C:\Program Files\Steam\steamapps\common\dota 2 beta\game\bin\win64\dota2.exe'
    [key |-> <<100, 111, 116, 97>>,
     Windows |-> [kind |-> "list", apps |-> <<<<67, 58, 92, 80, 114, 111, 103, 114, 97, 109, 32, 70, 105, 108, 101, 115, 32, 40, 120, 56, 54, 41, 92, 83, 116, 101, 97, 109, 92, 115, 116, 101, 97, 109, 97, 112, 112, 115, 92, 99, 111, 109, 109, 111, 110, 92, 100, 111, 116, 97, 32, 50, 32, 98, 101, 116, 97, 92, 103, 97, 109, 101, 92, 98, 105, 110, 92, 119, 105, 110, 54, 52, 92, 100, 111, 116, 97, 50, 46, 101, 120, 101>>,
            <<67, 58, 92, 80, 114, 111, 103, 114, 97, 109, 32, 70, 105, 108, 101, 115, 92, 83, 116, 101, 97, 109, 92, 115, 116, 101, 97, 109, 97, 112, 112, 115, 92, 99, 111, 109, 109, 111, 110, 92, 100, 111, 116, 97, 32, 50, 32, 98, 101, 116, 97, 92, 103, 97, 109, 101, 92, 98, 105, 110, 92, 119, 105, 110, 54, 52, 92, 100, 111, 116, 97, 50, 46, 101, 120, 101>>>>],
     Darwin |-> [kind |-> "none", apps |-> <<>>],
     Linux |-> [kind |-> "none", apps |-> <<>>]],
    \* 'valorant'
    \*   Windows:
    \*     'C:\Riot Games\Riot Client\RiotClientServices.exe'
    \*     'C:\Users\%USERNAME%\AppData\Local\Riot Games\Riot Client\RiotClientServices.exe'
    [key |-> <<1074, 1072, 1083, 1086, 1088, 1072, 1085, 1090>>,
     Windows |-> [kind |-> "list", apps |-> <<<<67, 58, 92, 82, 105, 111, 116, 32, 71, 97, 109, 101, 115, 92, 82, 105, 111, 116, 32, 67, 108, 105, 101, 110, 116, 92, 82, 105, 111, 116, 67, 108, 105, 101, 110, 116, 83, 101, 114, 118, 105, 99, 101, 115, 46, 101, 120, 101>>,
            <<67, 58, 92, 85, 115, 101, 114, 115, 92, 37, 85, 83, 69, 82, 78, 65, 77, 69, 37, 92, 65, 112, 112, 68, 97, 116, 97, 92, 76, 111, 99, 97, 108, 92, 82, 105, 111, 116, 32, 71, 97, 109, 101, 115, 92, 82, 105, 111, 116, 32, 67, 108, 105, 101, 110, 116, 92, 82, 105, 111, 116, 67, 108, 105, 101, 110, 116, 83, 101, 114, 118, 105, 99, 101, 115, 46, 101, 120, 101>>>>],
     Darwin |-> [kind |-> "none", apps |-> <<>>],
     Linux |-> [kind |-> "none", apps |-> <<>>]],
    \* 'riot'
    \*   Windows:
    \*     'C:\Riot Games\Riot Client\RiotClientServices.exe'
    \*     'C:\Users\%USERNAME%\AppData\Local\Riot Games\Riot Client\RiotClientServices.exe'
    [key |-> <<114, 105, 111, 116>>,
     Windows |-> [kind |-> "list", apps |-> <<<<67, 58, 92, 82, 105, 111, 116, 32, 71, 97, 109, 101, 115, 92, 82, 105, 111, 116, 32, 67, 108, 105, 101, 110, 116, 92, 82, 105, 111, 116, 67, 108, 105, 101, 110, 116, 83, 101, 114, 118, 105, 99, 101, 115, 46, 101, 120, 101>>,
            <<67, 58, 92, 85, 115, 101, 114, 115, 92, 37, 85, 83, 69, 82, 78, 65, 77, 69, 37, 92, 65, 112, 112, 68, 97, 116, 97, 92, 76, 111, 99, 97, 108, 92, 82, 105, 111, 116, 32, 71, 97, 109, 101, 115, 92, 82, 105, 111, 116, 32, 67, 108, 105, 101, 110, 116, 92, 82, 105, 111, 116, 67, 108, 105, 101, 110, 116, 83, 101, 114, 118, 105, 99, 101, 115, 46, 101, 120, 101>>>>],
     Darwin |-> [kind |-> "none", apps |-> <<>>],
     Linux |-> [kind |-> "none", apps |-> <<>>]]
    >>

\* the programs opened whether or not a file of that name exists:
\* 'chrome.exe', 'firefox.exe', 'notepad.exe', 'calc.exe'
AlwaysTried ==
    {<<99, 104, 114, 111, 109, 101, 46, 101, 120, 101>>,
     <<102, 105, 114, 101, 102, 111, 120, 46, 101, 120, 101>>,
     <<110, 111, 116, 101, 112, 97, 100, 46, 101, 120, 101>>,
     <<99, 97, 108, 99, 46, 101, 120, 101>>}

Systems == {"Windows", "Darwin", "Linux"}

\* known[target].get(system), and nothing when target is not in known
KnownFor(target, system) ==
    LET at == {i \in 1..Len(known) : known[i].key = target}
    IN  IF at = {} THEN [kind |-> "none", apps |-> <<>>]
        ELSE LET k == known[SetMin(at)]
             IN  CASE system = "Windows" -> k.Windows
                   [] system = "Darwin"  -> k.Darwin
                   [] OTHER              -> k.Linux

\* "%USERNAME%", and the name of the user the program runs as: "u"
v_username == <<37, 85, 83, 69, 82, 78, 65, 77, 69, 37>>
UserName == <<117>>

\* s.replace(old, new), for a non-empty old: leftmost occurrences first
RECURSIVE Replace(_, _, _)
Replace(s, old, new) ==
    LET at == {i \in 1..Len(s) : OccursAt(s, old, i)}
    IN  IF at = {} THEN s
        ELSE LET i == SetMin(at)
             IN  SubSeq(s, 1, i - 1) \o new
                    \o Replace(SubSeq(s, i + Len(old), Len(s)), old, new)

\* os.path.expandvars(app): of the strings in known only those with %USERNAME%
\* hold a variable, and these are opened on Windows only
ExpandVars(app) == Replace(app, v_username, UserName)

\* target.split(): the words of target in order
SplitWords(target) ==
    LET starts == {i \in 1..Len(target) :
                      ~IsSpace(target[i]) /\ (i = 1 \/ IsSpace(target[i - 1]))}
        EndOf(i) == SetMax({j \in i..Len(target) :
                              \A k \in i..j : ~IsSpace(target[k])})
        Nth(n) == CHOOSE i \in starts : Cardinality({x \in starts : x < i}) = n - 1
    IN  [n \in 1..Cardinality(starts) |-> SubSeq(target, Nth(n), EndOf(Nth(n)))]

\* for app in apps: ... : the calls of open_file made for the list from its
\* i-th entry on, and whether one of them opened
RECURSIVE TryEach(_, _, _, _)
TryEach(apps, i, existing, launchable) ==
    IF i > Len(apps) THEN [opened |-> <<>>, done |-> FALSE]
    ELSE LET app == apps[i]
             expanded_app == ExpandVars(app)
         IN  IF expanded_app \in existing \/ app \in AlwaysTried
             THEN LET call == OpenFile(expanded_app, launchable)
                  IN  IF call.ok THEN [opened |-> <<call>>, done |-> TRUE]
                      ELSE LET rest == TryEach(apps, i + 1, existing, launchable)
                           IN  [opened |-> <<call>> \o rest.opened, done |-> rest.done]
             ELSE TryEach(apps, i + 1, existing, launchable)

\* if target in known: ... : the calls of open_file, and whether one opened
TryKnown(target, system, existing, launchable) ==
    LET apps == KnownFor(target, system)
    IN  CASE apps.kind = "list" -> TryEach(apps.apps, 1, existing, launchable)
          [] apps.kind = "str" ->
                LET call == OpenFile(ExpandVars(apps.apps[1]), launchable)
                IN  [opened |-> <<call>>, done |-> call.ok]
          [] OTHER -> [opened |-> <<>>, done |-> FALSE]

\* after an attempt that did not open anything the next way is tried
\* a slip: the chain ends with the first attempt
GoesOn_mut(attempt) == FALSE
GoesOn(attempt) == ~attempt.done

\* if os.path.exists(target): if open_file(target): ...
TryPath(target, existing, launchable) ==
    IF target \in existing
    THEN LET call == OpenFile(target, launchable)
         IN  [opened |-> <<call>>, done |-> call.ok]
    ELSE [opened |-> <<>>, done |-> FALSE]

\* subprocess.Popen(target.split()): the call, and whether the program started
RunCommand(target, runnable) ==
    [argv |-> SplitWords(target), ok |-> runnable /\ SplitWords(target) # <<>>]

\* the open_app branch: target is looked up in known, then opened as a path,
\* then run as a command
open_app(target, system, existing, launchable, runnable) ==
    LET trying == Resp("trying_to_open", target, <<>>)
        k == TryKnown(target, system, existing, launchable)
        p == TryPath(target, existing, launchable)
        c == RunCommand(target, runnable)
    IN  IF ~GoesOn(k)
        THEN [said |-> <<trying, Resp("opened", <<>>, <<>>)>>, opened |-> k.opened,
              spawned |-> <<>>]
        ELSE IF ~GoesOn(p)
        THEN [said |-> <<trying, Resp("file_opened", <<>>, <<>>)>>,
              opened |-> k.opened \o p.opened, spawned |-> <<>>]
        ELSE [said |-> <<trying, IF c.ok THEN Resp("command_sent", <<>>, <<>>)
                                 ELSE Resp("open_failed", target, <<>>)>>,
              opened |-> k.opened \o p.opened, spawned |-> <<c>>]

k_zapusti == <<1079, 1072, 1087, 1091, 1089, 1090, 1080>>
k_otkroj == <<1086, 1090, 1082, 1088, 1086, 1081>>
k_najdi == <<1085, 1072, 1081, 1076, 1080>>
k_zapusk == <<1079, 1072, 1087, 1091, 1089, 1082>>
k_prilozhenie == <<1087, 1088, 1080, 1083, 1086, 1078, 1077, 1085, 1080, 1077>>
k_programma == <<1087, 1088, 1086, 1075, 1088, 1072, 1084, 1084, 1072>>

\* the words that make handle_command take an unknown command for a launch
LaunchWords == {k_zapusti, k_otkroj, k_najdi, k_zapusk, k_prilozhenie, k_programma}

\* a slip: the words are looked for in data as it is, not lower-cased
AsksForLaunch_mut(data) == \E word \in LaunchWords : Contains(data, word)
\* any(word in data.lower() for word in [...])
AsksForLaunch(data) == \E word \in LaunchWords : Contains(Lower(data), word)

\* ask_llm(question): the prompt reaches a backend when there is one, and the
\* fixed sentence is the answer when there is none
AskLlm(prompt, backend, reply) ==
    IF Available(backend)
    THEN [asked |-> <<prompt>>, answer |-> Resp("answer", reply, <<>>)]
    ELSE [asked |-> <<>>, answer |-> Resp("llm_unavailable", <<>>, <<>>)]

\* strftime('%H:%M') of an instant: the hour and the minute
HourMinute(t) ==
    LET m == (t \div TicksPerMinute) % MinutesPerDay
    IN  <<m \div (MaxMinute + 1), m % (MaxMinute + 1)>>

(***************************************************************************)
(* handle_command.                                                         *)
(***************************************************************************)
\* what handling a command does besides the scheduler's part: the sentences
\* spoken, the calls made, and whether the process exits
Effects(said, opened, asked, spawned) ==
    [said |-> said, opened |-> opened, asked |-> asked, spawned |-> spawned,
     searched |-> FALSE, found |-> <<>>, exit |-> FALSE]

\* the smart_launch branch, and the launch an unknown command is taken for
SmartLaunch(before, app_query, env) ==
    LET r == smart_app_launch(app_query, env.backend, env.installed, env.start_menu,
                              env.reply, env.launchable)
    IN  [Effects(<<before, r.result>>, r.opened, r.asked, <<>>)
            EXCEPT !.searched = r.searched, !.found = r.found]

\* the unknown branch
Unknown(data, env) ==
    IF Available(env.backend)
    THEN IF AsksForLaunch(data)
         THEN SmartLaunch(Resp("will_try_to_launch", <<>>, <<>>), data, env)
         ELSE LET a == AskLlm(Prompt("text", data, <<>>), env.backend, env.reply)
              IN  Effects(<<Resp("will_try_to_understand", <<>>, <<>>), a.answer>>,
                          <<>>, a.asked, <<>>)
    ELSE Effects(<<Resp("not_understood", <<>>, <<>>)>>, <<>>, <<>>, <<>>)

\* the check_llm branch: check_llm_status() and the sentence for it
CheckLlm(env) ==
    LET active == \/ env.ollama /\ env.backend = "ollama"
                  \/ env.transformers /\ env.backend = "transformers"
    IN  Resp(IF active THEN "llm_active"
             ELSE IF env.ollama \/ env.transformers THEN "llm_not_active"
             ELSE "llm_missing", <<>>, <<>>)

\* the show_alarms branch: the ids and the times of get_alarms()
ShowAlarms ==
    IF get_alarms = <<>> THEN Resp("no_alarms", <<>>, <<>>)
    ELSE Resp("alarms", <<>>,
              [i \in 1..Len(get_alarms) |->
                  <<get_alarms[i].id>> \o HourMinute(get_alarms[i].time)])

\* the set_alarm branch: the sentence for what set_alarm returns or raises
AlarmAnswer(time_spec) ==
    IF alarm_time(now, time_spec).ok THEN Resp("alarm_set", <<NewId(alarms)>>, <<>>)
    ELSE Resp("alarm_failed", time_spec, <<>>)

\* handle_command(intent, data) in the environment env: what the
\* collaborators return and which files and programs there are
handle_command(intent, data, env) ==
    CASE intent = "quit" ->
            [Effects(<<Resp("goodbye", <<>>, <<>>)>>, <<>>, <<>>, <<>>) EXCEPT !.exit = TRUE]
      [] intent = "help" -> Effects(<<Resp("help", <<>>, <<>>)>>, <<>>, <<>>, <<>>)
      [] intent = "show_alarms" -> Effects(<<ShowAlarms>>, <<>>, <<>>, <<>>)
      [] intent = "show_time" ->
            Effects(<<Resp("time", HourMinute(now), <<>>)>>, <<>>, <<>>, <<>>)
      [] intent = "ask_llm" ->
            LET a == AskLlm(Prompt("text", data, <<>>), env.backend, env.reply)
            IN  Effects(<<Resp("thinking", <<>>, <<>>), a.answer>>, <<>>, a.asked, <<>>)
      [] intent = "smart_launch" -> SmartLaunch(Resp("searching", <<>>, <<>>), data, env)
      [] intent = "check_llm" -> Effects(<<CheckLlm(env)>>, <<>>, <<>>, <<>>)
      [] intent = "open_app" ->
            LET o == open_app(data, env.system, env.existing, env.launchable, env.runnable)
            IN  Effects(o.said, o.opened, <<>>, o.spawned)
      [] intent = "set_alarm" -> Effects(<<AlarmAnswer(data)>>, <<>>, <<>>, <<>>)
      [] intent = "solve_math" ->
            Effects(<<Resp("computing", <<>>, <<>>),
                      Resp(IF env.evaluates THEN "result" ELSE "result_error", data, <<>>)>>,
                    <<>>, <<>>, <<>>)
      [] intent = "unknown" -> Unknown(data, env)
      [] OTHER -> Effects(<<>>, <<>>, <<>>, <<>>)

(***************************************************************************)
(* Specification SpecLoop: main_loop, from listen() to handle_command.     *)
(***************************************************************************)
\* what listen() may return while the loop runs: utterances for every branch
\* of handle_command, and the empty text (nothing heard)
Commands ==
    {<<1074, 1099, 1093, 1086, 1076>>,  \* "vyhod"
     <<1087, 1086, 1084, 1086, 1097, 1100>>,  \* "pomosch"
     <<1087, 1086, 1082, 1072, 1078, 1080, 32, 1073, 1091, 1076, 1080, 1083, 1100, 1085, 1080, 1082, 1080>>,  \* "pokazhi_budilniki"
     <<1089, 1082, 1086, 1083, 1100, 1082, 1086, 32, 1074, 1088, 1077, 1084, 1077, 1085, 1080>>,  \* "skolko_vremeni"
     <<1095, 1090, 1086, 32, 1090, 1072, 1082, 1086, 1077, 32, 112, 121, 116, 104, 111, 110>>,  \* "chto_takoe_python"
     <<1089, 1090, 1072, 1090, 1091, 1089, 32, 108, 108, 109>>,  \* "status_llm"
     <<1086, 1090, 1082, 1088, 1086, 1081, 32, 1082, 1072, 1083, 1100, 1082, 1091, 1083, 1103, 1090, 1086, 1088>>,  \* "otkroj_kalkulyator"
     <<111, 112, 101, 110, 32, 99, 104, 114, 111, 109, 101>>,  \* "open chrome"
     <<1079, 1072, 1087, 1091, 1089, 1090, 1080, 32, 99, 115>>,  \* "zapusti_cs"
     <<1086, 1090, 1082, 1088, 1086, 1081, 32, 1074, 1072, 1083, 1086, 1088, 1072, 1085, 1090>>,  \* "otkroj_valorant"
     <<111, 112, 101, 110, 32, 114, 109, 32, 45, 114, 102, 32, 120>>,  \* "open rm -rf x"
     <<1085, 1072, 1081, 1076, 1080, 32, 1080, 32, 1079, 1072, 1087, 1091, 1089, 1090, 1080, 32, 115, 116, 101, 97, 109>>,  \* "najdi_i_zapusti_steam"
     <<1085, 1072, 1081, 1076, 1080, 32, 1087, 1088, 1080, 1083, 1086, 1078, 1077, 1085, 1080, 1077, 32, 99, 104, 114, 111, 109, 101>>,  \* "najdi_prilozhenie_chrome"
     <<1085, 1072, 1081, 1076, 1080, 32, 1087, 1088, 1080, 1083, 1086, 1078, 1077, 1085, 1080, 1077, 32, 115, 116, 101, 97, 109>>,  \* "najdi_prilozhenie_steam"
     <<1085, 1072, 1081, 1076, 1080, 32, 1087, 1088, 1080, 1083, 1086, 1078, 1077, 1085, 1080, 1077, 32, 122, 122, 122>>,  \* "najdi_prilozhenie_zzz"
     <<1073, 1091, 1076, 1080, 1083, 1100, 1085, 1080, 1082, 32, 55, 58, 51, 48>>,  \* "budilnik_7:30"
     <<1095, 1077, 1088, 1077, 1079, 32, 49, 48, 32, 1084, 1080, 1085, 1091, 1090>>,  \* "cherez_10_minut"
     <<1073, 1091, 1076, 1080, 1083, 1100, 1085, 1080, 1082, 32, 50, 53, 58, 48, 48>>,  \* "budilnik_25:00"
     <<1095, 1077, 1088, 1077, 1079, 32, 48, 32, 1084, 1080, 1085, 1091, 1090>>,  \* "cherez_0_minut"
     <<1088, 1077, 1096, 1080, 32, 50, 43, 50>>,  \* "reshi_2+2"
     <<50, 43, 50>>,  \* "2+2"
     <<1087, 1088, 1080, 1074, 1077, 1090>>,  \* "privet"
     <<1085, 1072, 1081, 1076, 1080, 32, 99, 104, 114, 111, 109, 101>>,  \* "najdi_chrome"
     <<1055, 1088, 1086, 1075, 1088, 1072, 1084, 1084, 1072, 32, 99, 104, 114, 111, 109, 101>>,  \* "programma_chrome"
     <<1079, 1072, 1087, 1091, 1089, 1082>>,  \* "zapusk"
     <<>>}  \* ""

\* what ask_llm may answer: "2", "0", "6", "no idea", "maybe 3?", "-1", "1 or 2"
Replies ==
    {<<50>>,
     <<48>>,
     <<54>>,
     <<110, 111, 32, 105, 100, 101, 97>>,
     <<109, 97, 121, 98, 101, 32, 51, 63>>,
     <<45, 49>>,
     <<49, 32, 111, 114, 32, 50>>}

\* what find_installed_apps may return while the loop runs
LoopInstalled == {<<>>, <<r_chromium, r_google_chrome>>, RegistryPool}

Backends == {"none", "ollama", "transformers"}

\* the targets open_app may pass to open_file or os.path.exists
OpenTargets(target, system) ==
    LET apps == KnownFor(target, system).apps
    IN  {target} \cup {ExpandVars(apps[i]) : i \in 1..Len(apps)}

\* the paths of an inventory
PathsOf(installed) == {installed[i].path : i \in 1..Len(installed)}

\* an environment in which nothing is installed, nothing opens and no
\* collaborator is up
BareEnv(backend) ==
    [backend |-> backend, system |-> "Linux", installed |-> <<>>, start_menu |-> <<>>,
     reply |-> <<>>, launchable |-> {}, existing |-> {}, runnable |-> FALSE,
     ollama |-> FALSE, transformers |-> backend = "transformers", evaluates |-> FALSE]

\* the environments a launch through the search is handled in
SearchEnvs(backend) ==
    {[BareEnv(backend) EXCEPT !.installed = installed, !.reply = reply,
                              !.launchable = IF opens THEN PathsOf(installed) ELSE {}] :
        installed \in LoopInstalled, reply \in Replies, opens \in BOOLEAN}

\* the environments the command is handled in: the platform, the files that
\* exist, the targets that open, the programs that run, the inventory, the
\* answers of the collaborators; what a branch does not consult is left as in
\* BareEnv
EnvsFor(intent, data, backend) ==
    CASE intent = "open_app" ->
            UNION {{[BareEnv(backend) EXCEPT !.system = system, !.existing = existing,
                                             !.launchable = launchable,
                                             !.runnable = runnable] :
                       existing \in SUBSET OpenTargets(data, system),
                       launchable \in SUBSET OpenTargets(data, system),
                       runnable \in BOOLEAN} : system \in Systems}
      [] intent \in {"smart_launch", "unknown"} -> SearchEnvs(backend)
      [] intent = "ask_llm" -> {[BareEnv(backend) EXCEPT !.reply = reply] : reply \in Replies}
      [] intent = "check_llm" ->
            {[BareEnv(backend) EXCEPT !.ollama = ollama] : ollama \in BOOLEAN}
      [] intent = "solve_math" ->
            {[BareEnv(backend) EXCEPT !.evaluates = evaluates] : evaluates \in BOOLEAN}
      [] OTHER -> {BareEnv(backend)}

\* number of alarms set in one run of the loop
MaxLoopAlarms == 1

InitLoop ==
    /\ now \in StartInstants
    /\ alarms = <<>>
    /\ workers = <<>>
    /\ hist = <<>>
    /\ lastOp = NoCall
    /\ parsed = NotParsed
    /\ search = NoSearch
    /\ \E backend \in Backends : run = [NoRun EXCEPT !.stage = "ready", !.backend = backend]

\* the loop at the top of a cycle: nothing said or called yet
Fresh(stage) == [NoRun EXCEPT !.stage = stage, !.backend = run.backend]

\* txt = listen(); if not txt: speak(...); continue
main_loop_listen ==
    /\ run.stage = "ready"
    /\ \E text \in Commands :
          /\ Len(hist) >= MaxLoopAlarms =>
                LET r == parse_command(text)
                IN  ~(r.intent = "set_alarm" /\ alarm_time(now, r.data).ok)
          /\ IF text = <<>>
             THEN /\ run' = [Fresh("handled") EXCEPT
                                !.said = <<Resp("not_heard", <<>>, <<>>)>>]
                  /\ parsed' = NotParsed
             ELSE /\ run' = Fresh("heard")
                  /\ parsed' = [NotParsed EXCEPT !.text = text, !.stage = "heard"]
    /\ UNCHANGED <<now, alarms, workers, hist, lastOp, search>>

\* intent, data = parse_command(txt)
main_loop_parse ==
    /\ run.stage = "heard"
    /\ LET r == parse_command(parsed.text)
       IN  parsed' = [text |-> parsed.text, stage |-> "parsed", intent |-> r.intent,
                      data |-> r.data, has |-> r.has]
    /\ run' = [run EXCEPT !.stage = "parsed"]
    /\ UNCHANGED <<now, alarms, workers, hist, lastOp, search>>

\* where the loop goes after handle_command: sys.exit(0) ends it
\* a slip: the loop ends after any command
StageAfter_mut(effects) == "stopped"
StageAfter(effects) == IF effects.exit THEN "stopped" ELSE "handled"

\* handle_command(intent, data)
main_loop_handle ==
    /\ run.stage = "parsed"
    /\ \E env \in EnvsFor(parsed.intent, parsed.data, run.backend) :
          \E effects \in {handle_command(parsed.intent, parsed.data, env)} :
              /\ run' = [stage |-> StageAfter(effects), backend |-> run.backend,
                         said |-> effects.said, opened |-> effects.opened,
                         asked |-> effects.asked, spawned |-> effects.spawned,
                         searched |-> effects.searched, found |-> effects.found,
                         cause |-> IF effects.exit THEN "quit" ELSE "none",
                         reply |-> IF effects.asked # <<>> THEN env.reply ELSE <<>>]
              /\ search' = IF effects.searched
                           THEN [query |-> parsed.data, installed |-> env.installed,
                                 start_menu |-> env.start_menu, stage |-> "done",
                                 results |-> effects.found]
                           ELSE search
    /\ IF parsed.intent = "set_alarm"
       THEN set_alarm_call(parsed.data, VoiceLabel)
       ELSE UNCHANGED <<alarms, workers, hist, lastOp>>
    /\ UNCHANGED <<now, parsed>>

\* except Exception: an exception escapes from lines 912-914 before the command
\* is parsed; the loop says so and goes on
main_loop_error ==
    /\ run.stage = "heard"
    /\ run' = [Fresh("handled") EXCEPT !.said = <<Resp("loop_error", <<>>, <<>>)>>]
    /\ UNCHANGED <<now, alarms, workers, hist, lastOp, parsed, search>>

\* the end of the loop body (or continue): back to the top for the next cycle
main_loop_next ==
    /\ run.stage = "handled"
    /\ run' = Fresh("ready")
    /\ parsed' = NotParsed
    /\ search' = NoSearch
    /\ UNCHANGED <<now, alarms, workers, hist, lastOp>>

\* except KeyboardInterrupt: speak('bye'); break
main_loop_interrupt ==
    /\ run.stage \in {"ready", "heard", "parsed", "handled"}
    /\ run' = [Fresh("stopped") EXCEPT !.cause = "interrupt",
                                       !.said = <<Resp("exit", <<>>, <<>>)>>]
    /\ parsed' = NotParsed
    /\ search' = NoSearch
    /\ UNCHANGED <<now, alarms, workers, hist, lastOp>>

NextLoop ==
    \/ main_loop_listen
    \/ main_loop_parse
    \/ main_loop_handle
    \/ main_loop_error
    \/ main_loop_next
    \/ main_loop_interrupt

SpecLoop == InitLoop /\ [][NextLoop]_vars

(***************************************************************************)
(* Claims about smart_app_launch and handle_command, in SpecLoop.          *)
(***************************************************************************)
\* handle_command has returned from a launch through the search
Searched == run.stage = "handled" /\ run.searched

\* the search returned several candidates
SeveralFound == Searched /\ Len(run.found) > 1

\* the first integer token of a reply (its first maximal run of digits) as a
\* number, and 0 when the reply has none
FirstInteger(reply) == IF HasNumber(reply) THEN IntOf(FirstNumber(reply)) ELSE 0

\* the last sentence handle_command spoke
LastSaid == run.said[Len(run.said)]

\* C14: when the search returns several candidates, the first integer token
\* of the language model's reply is a 1-based index k: with k within
\* 1..(number of candidates) open_file is called once, with the path of the
\* k-th candidate; with no integer in the reply or k out of range open_file is
\* not called and the answer is the numbered list of the candidates.
C14_IndexChoosesCandidate ==
    SeveralFound =>
        LET k == FirstInteger(run.reply)
        IN  IF k \in 1..Len(run.found)
            THEN /\ Len(run.opened) = 1
                 /\ run.opened[1].target = run.found[k].path
            ELSE /\ run.opened = <<>>
                 /\ LastSaid = Resp("several_found", <<>>, NamesOf(run.found))

\* C14 witness: several candidates, the reply names the second, one launch
C14_Witness ==
    /\ SeveralFound
    /\ FirstInteger(run.reply) = 2
    /\ Len(run.opened) = 1
    /\ run.opened[1].ok

\* the search returned exactly one candidate
OneFound == Searched /\ Len(run.found) = 1

\* C15: when the search returns exactly one candidate it is launched directly:
\* open_file is called once, with the path of that candidate, and ask_llm is
\* not called.
C15_SingleCandidateLaunched ==
    OneFound =>
        /\ Len(run.opened) = 1
        /\ run.opened[1].target = run.found[1].path
        /\ run.asked = <<>>

\* C15 witness: a smart_launch command found one candidate and opened it
C15_Witness ==
    /\ OneFound
    /\ parsed.intent = "smart_launch"
    /\ run.opened # <<>>
    /\ run.opened[1].ok

\* handle_command has returned from the unknown branch
UnknownHandled == run.stage = "handled" /\ parsed.intent = "unknown"

\* the payload holds one of the launch words, whatever the case of its letters
HasLaunchKeyword(payload) == \E word \in LaunchWords : IsSubstring(word, Lower(payload))

\* the sentences smart_app_launch returns
SmartLaunchAnswers ==
    {"search_needs_llm", "answer", "launching", "launch_failed", "several_found"}

\* the payload went through smart_app_launch: its sentence is the answer, and
\* the search was made for the payload if there is a language model
HandledAsSmartLaunch ==
    /\ LastSaid.msg \in SmartLaunchAnswers
    /\ run.searched = Available(run.backend)
    /\ run.searched => search.query = parsed.data

\* the payload was put to the language model as it is and its reply spoken
ForwardedVerbatim ==
    /\ run.asked = <<Prompt("text", parsed.data, <<>>)>>
    /\ LastSaid = Resp("answer", run.reply, <<>>)
    /\ ~run.searched

\* the fixed sentence was the answer and nothing was called
NotUnderstood ==
    /\ LastSaid = Resp("not_understood", <<>>, <<>>)
    /\ run.asked = <<>>
    /\ ~run.searched

\* C16 as stated: an unknown command with a launch word is handled as a smart
\* launch; without one it is forwarded verbatim to the language model when
\* there is one, and answered with the fixed sentence when there is none.
C16_KeywordThenAvailability ==
    UnknownHandled =>
        IF HasLaunchKeyword(parsed.data) THEN HandledAsSmartLaunch
        ELSE IF Available(run.backend) THEN ForwardedVerbatim
        ELSE NotUnderstood

\* C16 as the code has it: when there is a language model, an unknown command
\* with a launch word is handled as a smart launch and one without is
\* forwarded verbatim; when there is none the fixed sentence is the answer,
\* with or without a launch word.
C16_AvailabilityThenKeyword ==
    UnknownHandled =>
        IF Available(run.backend)
        THEN IF HasLaunchKeyword(parsed.data) THEN HandledAsSmartLaunch
             ELSE ForwardedVerbatim
        ELSE NotUnderstood

\* C16 witness: no language model, a launch word in the payload, the fixed
\* sentence as the answer
C16_Witness ==
    /\ UnknownHandled
    /\ ~Available(run.backend)
    /\ HasLaunchKeyword(parsed.data)
    /\ NotUnderstood

\* handle_command was called for a command other than quit
OtherDispatched == parsed.stage = "parsed" /\ parsed.intent # "quit"
                      /\ run.stage \in {"handled", "stopped"}

\* something was said and the loop is on its way to the next listen()
AnsweredAndGoesOn == run.stage = "handled" /\ run.said # <<>>

\* the loop stopped because handle_command was given quit
StoppedByQuit == run.cause = "quit" /\ parsed.intent = "quit"

\* C17 as stated: main_loop stops only when quit is dispatched; every other
\* command, whatever goes wrong in handling it, is answered and the loop goes
\* on to the next cycle.
C17_StopsOnlyOnQuit ==
    /\ run.stage = "stopped" => StoppedByQuit
    /\ OtherDispatched => AnsweredAndGoesOn

\* C17 as the code has it: main_loop stops only when quit is dispatched or on
\* a KeyboardInterrupt; every other command, whatever goes wrong in handling
\* it, is answered and the loop goes on to the next cycle.
C17_StopsOnQuitOrInterrupt ==
    /\ run.stage = "stopped" => StoppedByQuit \/ run.cause = "interrupt"
    /\ OtherDispatched => AnsweredAndGoesOn

\* C17 witness: the loop went on after a set_alarm that raised and stopped
\* later on a KeyboardInterrupt
C17_Witness ==
    /\ run.stage = "stopped"
    /\ run.cause = "interrupt"
    /\ lastOp.called
    /\ ~lastOp.ok

\* the program and the arguments of a command are words of the recognised text
TakenFromText(argv, text) ==
    /\ argv # <<>>
    /\ \A j \in 1..Len(argv) : IsSubstring(argv[j], Lower(text))

\* C18: handling an utterance never runs a system command whose program name
\* and arguments are taken from the recognised text.
C18_NoCommandFromText ==
    \A i \in 1..Len(run.spawned) :
        ~(run.spawned[i].ok /\ TakenFromText(run.spawned[i].argv, parsed.text))

(***************************************************************************)
(* Claims about the life of an alarm and its waiter.                       *)
(***************************************************************************)
\* the state of the k-th alarm created as its events show it: Fired once its
\* notification was spoken, else Cancelled once remove_alarm took it out
Lifecycle(k) == IF hist[k].fired > 0 THEN "Fired" ELSE AlarmState(k)

\* C19: an alarm only ever moves from Pending to Fired or from Pending to
\* Cancelled and never leaves Fired or Cancelled; its notification is spoken
\* at most once.
C19_TerminalStates ==
    [][\A k \in DOMAIN hist :
          /\ \/ Lifecycle(k)' = Lifecycle(k)
             \/ Lifecycle(k) = "Pending" /\ Lifecycle(k)' \in {"Fired", "Cancelled"}
          /\ hist'[k].fired <= 1]_vars

(***************************************************************************)
(* Specification SpecWaiters: the scheduler while the process runs, and    *)
(* the end of the process. The waiters are daemon threads: the interpreter *)
(* does not wait for them at exit, and they end with the process.          *)
(***************************************************************************)
InitWaiters ==
    /\ now \in StartInstants
    /\ alarms = <<>>
    /\ workers = <<>>
    /\ hist = <<>>
    /\ lastOp = NoCall
    /\ parsed = NotParsed
    /\ search = NoSearch
    /\ run = [NoRun EXCEPT !.stage = "ready"]

\* the process has not exited
Running == run.stage # "stopped"

\* Thread(..., daemon=True): a waiter that has not returned ends with the
\* process, wherever it is
EndsWithProcess(worker) ==
    IF worker.pc = "done" THEN worker ELSE [worker EXCEPT !.pc = "killed"]

\* the quit branch of handle_command: speak, then sys.exit(0)
process_exit ==
    /\ Running
    /\ run' = [run EXCEPT !.stage = "stopped", !.cause = "quit",
                          !.said = <<Resp("goodbye", <<>>, <<>>)>>]
    /\ workers' = [k \in DOMAIN workers |-> EndsWithProcess(workers[k])]
    /\ UNCHANGED <<now, alarms, hist, lastOp, parsed, search>>

\* what the process does while it runs
WhileRunning == Running /\ Next

\* time goes on after the process has exited
TickAfterExit == ~Running /\ Tick

NextWaiters ==
    \/ WhileRunning
    \/ process_exit
    \/ TickAfterExit

SpecWaiters == InitWaiters /\ [][NextWaiters]_vars

\* C20: the waiters are independent of the loop: an alarm that is created and
\* not cancelled is notified once the clock reaches its time, whatever the
\* loop does, its exit on quit included. For that, an alarm that is still
\* Pending must have a waiter that can still speak: a waiter that ended with
\* the process never does.
C20_PendingAlarmKeepsWaiter ==
    \A k \in DOMAIN hist : Lifecycle(k) = "Pending" => workers[k].pc # "killed"

\* the waiter has not finished: its thread has still to speak
IsLive(worker) == worker.pc \in {"start", "sleeping"}

\* C21: after any sequence of set_alarm and remove_alarm calls no two waiters
\* that have not finished carry the same alarm id.
C21_OneLiveWaiterPerId ==
    \A j, k \in DOMAIN workers :
        (j # k /\ IsLive(workers[j]) /\ IsLive(workers[k]))
            => workers[j].alarm.id # workers[k].alarm.id

\* handle_command has returned from the open_app or the smart_launch branch
LaunchDispatched ==
    run.stage = "handled" /\ parsed.intent \in {"open_app", "smart_launch"}

\* the i-th call of open_file returned False
FailedAt(i) == ~run.opened[i].ok

\* nothing was tried after the i-th call of open_file
ChainStopsAt(i) == i = Len(run.opened) /\ run.spawned = <<>>

\* the answer says that the launch failed
FailureReported == LastSaid.msg \in {"launch_failed", "open_failed"}

FailedSet(time_str) == set_alarm(time_str, VoiceLabel) /\ ~alarm_time(now, time_str).ok

StartsLate(k) == alarm_worker_start(k) /\ workers[k].alarm.time <= now

\* C24: the notification of an alarm is never spoken while the clock is
\* before the alarm's time; a waiter that starts when the time has been
\* reached (delta <= 0) speaks at once, without sleeping.
C24_NeverEarlyLateAtOnce ==
    [][\A k \in DOMAIN hist :
          /\ hist'[k].fired > hist[k].fired => now >= hist[k].alarm.time
          /\ StartsLate(k) => /\ workers'[k].pc = "done"
                               /\ hist'[k].fired = hist[k].fired + 1]_vars

\* C24 witness: an alarm was notified by a waiter that never slept
C24_Witness ==
    \E k \in DOMAIN hist :
        /\ hist[k].fired = 1
        /\ workers[k].pc = "done"
        /\ workers[k].wake = 0
        /\ now >= hist[k].alarm.time

====
